---- MODULE Spec2Model ----
(***************************************************************************)
(* Model of the Scope3 segments worker: the fingerprint-keyed request      *)
(* handler (handleRequest with getCacheKey / callSegmentApi), the HTML      *)
(* cache module (html-cache.js) and the proxy handler that uses it.         *)
(***************************************************************************)
EXTENDS Integers, Sequences, FiniteSets, TLC

VARIABLES
  keyIn,     \* checks of the pure functions: the input (cache key: <<a, b>>)
  keyOut,    \* checks of the pure functions: Null, or what was computed
  worker,    \* the worker script deployed: "part_007", "part_005" or "part_006"
  env,       \* the bindings of the deployment
  now,       \* Date.now(), in ticks
  segCache,  \* caches.default: cache key -> {structuredSegments, timestamp}
  pending,   \* cache.put calls handed to ctx.waitUntil and not yet settled
  htmlKV,    \* env.HTML_CACHE: html key -> {html, url, timestamp, validation}
  segKV,     \* env.SEGMENTS_CACHE: "url:<target>" -> {segments, cached_at}
  req        \* per request in flight: its position and locals

keyVars == <<keyIn, keyOut>>
mainVars == <<worker, env, now, segCache, pending, htmlKV, segKV, req>>
vars == <<keyIn, keyOut, worker, env, now, segCache, pending, htmlKV, segKV, req>>

\* JS null / undefined for object-valued results
Null == [null |-> TRUE]
\* Headers.get() / cookie lookup returned null
NoHeader == "<null>"
\* a property whose value is undefined (JSON.stringify omits it)
Undefined == "<undefined>"

(***************************************************************************)
(* ua-parser-js, as used by buildOpenRtbRequest and getCacheKey: a table   *)
(* from raw user-agent strings to browser / OS / device fields.            *)
(***************************************************************************)
UAStrings ==
  {"", "Chrome/100 (Windows)", "Chrome/101 (Windows)", "Firefox/99 (Windows)",
   "Safari/15 (iPhone)", "curl/7.0"}

UAParser(ua) ==
  CASE ua = "Chrome/100 (Windows)" ->
         [browser |-> "Chrome", os |-> "Windows", type |-> Undefined,
          vendor |-> Undefined, model |-> Undefined]
    [] ua = "Chrome/101 (Windows)" ->
         [browser |-> "Chrome", os |-> "Windows", type |-> Undefined,
          vendor |-> Undefined, model |-> Undefined]
    [] ua = "Firefox/99 (Windows)" ->
         [browser |-> "Firefox", os |-> "Windows", type |-> Undefined,
          vendor |-> Undefined, model |-> Undefined]
    [] ua = "Safari/15 (iPhone)" ->
         [browser |-> "Mobile Safari", os |-> "iOS", type |-> "mobile",
          vendor |-> "Apple", model |-> "iPhone"]
    [] OTHER ->
         [browser |-> Undefined, os |-> Undefined, type |-> Undefined,
          vendor |-> Undefined, model |-> Undefined]

\* the JS idiom  x || ""
OrEmpty(x) == IF x \in {NoHeader, Undefined} THEN "" ELSE x

(***************************************************************************)
(* URLs (new URL(...)): href, hostname, pathname, search.                  *)
(***************************************************************************)
URL(href, hostname, pathname, search) ==
  [href |-> href, hostname |-> hostname, pathname |-> pathname, search |-> search]

UrlHome == URL("https://example.com/", "example.com", "/", "")
UrlNews == URL("https://example.com/news", "example.com", "/news", "")
UrlNewsQ == URL("https://example.com/news?x=1", "example.com", "/news", "?x=1")
UrlCss == URL("https://example.com/site.css", "example.com", "/site.css", "")
UrlData == URL("https://example.com/data", "example.com", "/data", "")

(***************************************************************************)
(* The inbound request as buildOpenRtbRequest reads it.  Identity cookies  *)
(* are given by the value each cookie parses to: NoHeader when the cookie  *)
(* is missing (or, for _sharedid / _lr_env, when JSON.parse fails).        *)
(***************************************************************************)
Request(ua, cfDeviceType, country, sharedid, lrEnv, lrSrc, uid2, id5) ==
  [ua |-> ua, cfDeviceType |-> cfDeviceType, country |-> country,
   sharedid |-> sharedid, lrEnv |-> lrEnv, lrSrc |-> lrSrc,
   uid2 |-> uid2, id5 |-> id5]

\* one external id entry of user.ext.eids
Eid(source, id) == [source |-> source, uids |-> <<[id |-> id]>>]

\* devicetype: 2 desktop by default, 1 mobile, 5 tablet; CF-Device-Type overrides
DeviceType(result, cfDeviceType) ==
  LET fromUa == IF result.type = "mobile" THEN "1"
                ELSE IF result.type = "tablet" THEN "5" ELSE "2"
  IN  CASE cfDeviceType = "mobile" -> "1"
        [] cfDeviceType = "tablet" -> "5"
        [] cfDeviceType = "desktop" -> "2"
        [] OTHER -> fromUa

\* the eids pushed in source order: sharedid, liveramp, uid2, id5
BuildEids(request) ==
  (IF request.sharedid # NoHeader
     THEN <<Eid("sharedid.org", request.sharedid)>> ELSE <<>>)
  \o (IF request.lrEnv # NoHeader /\ request.lrSrc = "true"
        THEN <<Eid("liveramp.com", request.lrEnv)>> ELSE <<>>)
  \o (IF request.uid2 # NoHeader
        THEN <<Eid("uidapi.com", request.uid2)>> ELSE <<>>)
  \o (IF request.id5 # NoHeader
        THEN <<Eid("id5-sync.com", request.id5)>> ELSE <<>>)

\* The OpenRTB request object.  eids = <<>> stands for a deleted user object.
buildOpenRtbRequest(url, etag, lastModified, request) ==
  LET result == UAParser(request.ua)
  IN  [site |-> [domain |-> url.hostname,
                 page |-> url.href,
                 etag |-> OrEmpty(etag),
                 last_modified |-> OrEmpty(lastModified)],
       device |-> [devicetype |-> DeviceType(result, request.cfDeviceType),
                   country |-> IF request.country = NoHeader THEN "US"
                               ELSE request.country,
                   ua |-> request.ua,
                   os |-> result.os,
                   make |-> OrEmpty(result.vendor),
                   model |-> OrEmpty(result.model)],
       eids |-> BuildEids(request)]

(***************************************************************************)
(* JSON.stringify of an object: its defined properties in insertion order, *)
(* as <<path, value>> pairs.                                               *)
(***************************************************************************)
Prop(path, value) == IF value = Undefined THEN <<>> ELSE << <<path, value>> >>

RECURSIVE UserIdProps(_, _)
UserIdProps(userIds, i) ==
  IF i > Len(userIds) THEN <<>>
  ELSE << <<"user_ids.source", userIds[i].source>>,
          <<"user_ids.id", userIds[i].id>> >> \o UserIdProps(userIds, i + 1)

\* SHA256(str).toString(Hex).substring(0, 16): a digest taken to be free of
\* collisions on the strings of the model
SHA256Hex16(str) == [sha256 |-> str]

ApiHostname == "rtdp.scope3.com"

\* userIds: {source, id: uids[0].id} for every eid that has a uid
RECURSIVE UserIds(_, _)
UserIds(eids, i) ==
  IF i > Len(eids) THEN <<>>
  ELSE (IF Len(eids[i].uids) > 0
          THEN <<[source |-> eids[i].source, id |-> eids[i].uids[1].id]>>
          ELSE <<>>) \o UserIds(eids, i + 1)

\* mutant of NormalizedRequestStr: the raw user-agent string is left in the copy
NormalizedRequestStr_KeepsRawUa(apiRequest) ==
  LET dev == apiRequest.device
  IN  Prop("site.domain", apiRequest.site.domain)
      \o Prop("site.page", apiRequest.site.page)
      \o Prop("site.ext.scope3.etag", apiRequest.site.etag)
      \o Prop("site.ext.scope3.last_modified", apiRequest.site.last_modified)
      \o Prop("imp.id", "1")
      \o Prop("device.devicetype", dev.devicetype)
      \o Prop("device.geo.country", dev.country)
      \o Prop("device.ua", dev.ua)
      \o Prop("device.os", dev.os)
      \o Prop("device.make", dev.make)
      \o Prop("device.model", dev.model)
      \o UserIdProps(UserIds(apiRequest.eids, 1), 1)

\* mutant of NormalizedRequestStr: the user object is deleted and no user_ids
\* are put in its place
NormalizedRequestStr_DropsUserIds(apiRequest) ==
  LET dev == apiRequest.device
      hasUa == dev.ua # ""
      result == UAParser(dev.ua)
  IN  Prop("site.domain", apiRequest.site.domain)
      \o Prop("site.page", apiRequest.site.page)
      \o Prop("site.ext.scope3.etag", apiRequest.site.etag)
      \o Prop("site.ext.scope3.last_modified", apiRequest.site.last_modified)
      \o Prop("imp.id", "1")
      \o Prop("device.devicetype", dev.devicetype)
      \o Prop("device.geo.country", dev.country)
      \o (IF hasUa THEN <<>> ELSE Prop("device.ua", dev.ua))
      \o Prop("device.os", dev.os)
      \o Prop("device.make", dev.make)
      \o Prop("device.model", dev.model)
      \o (IF hasUa
            THEN Prop("device.ua_normalized.browser", result.browser)
                 \o Prop("device.ua_normalized.os", result.os)
                 \o Prop("device.ua_normalized.device", dev.devicetype)
            ELSE <<>>)

\* requestCopy after normalisation, serialised
NormalizedRequestStr(apiRequest) ==
  LET dev == apiRequest.device
      hasUa == dev.ua # ""
      result == UAParser(dev.ua)
      userIds == UserIds(apiRequest.eids, 1)
  IN  Prop("site.domain", apiRequest.site.domain)
      \o Prop("site.page", apiRequest.site.page)
      \o Prop("site.ext.scope3.etag", apiRequest.site.etag)
      \o Prop("site.ext.scope3.last_modified", apiRequest.site.last_modified)
      \o Prop("imp.id", "1")
      \o Prop("device.devicetype", dev.devicetype)
      \o Prop("device.geo.country", dev.country)
      \o (IF hasUa THEN <<>> ELSE Prop("device.ua", dev.ua))
      \o Prop("device.os", dev.os)
      \o Prop("device.make", dev.make)
      \o Prop("device.model", dev.model)
      \o (IF hasUa
            THEN Prop("device.ua_normalized.browser", result.browser)
                 \o Prop("device.ua_normalized.os", result.os)
                 \o Prop("device.ua_normalized.device", dev.devicetype)
            ELSE <<>>)
      \o UserIdProps(userIds, 1)

getCacheKey(apiRequest) ==
  [hostname |-> ApiHostname, hash |-> SHA256Hex16(NormalizedRequestStr(apiRequest))]


(***************************************************************************)
(* Bounds of the model.                                                    *)
(***************************************************************************)
MaxTime == 2      \* the clock runs 0..MaxTime

\* env.CACHE_TTL (segment cache) and env.HTML_CACHE_TTL, in ticks
CACHE_TTL == 1
HTML_CACHE_TTL == 1

(***************************************************************************)
(* HTML documents: a sequence of tokens.                                   *)
(***************************************************************************)
Tag(name) == [tag |-> name]
Script(segments, baseUrl) == [tag |-> "script", segments |-> segments, base |-> baseUrl]

HtmlV1 == <<Tag("html"), Tag("head"), Tag("title:v1"), Tag("body")>>
HtmlV2 == <<Tag("html"), Tag("head"), Tag("title:v2"), Tag("body")>>
HtmlNoHead == <<Tag("html"), Tag("body:v3")>>

\* what the origin serves for the document: body and validators
DocV1 == [html |-> HtmlV1, etag |-> "e1", lastModified |-> "m1"]
DocV2 == [html |-> HtmlV2, etag |-> NoHeader, lastModified |-> "m2"]
DocPlain == [html |-> HtmlNoHead, etag |-> NoHeader, lastModified |-> NoHeader]
OriginDocs == {DocV1, DocV2, DocPlain}

(***************************************************************************)
(* Segments: slot id -> list of segment ids.                               *)
(***************************************************************************)
EmptySegments == "global" :> <<>>

\* an impression of the API response: slotId is tagid || id, hasSegments
\* tells whether ext.scope3.segments is there
Imp(slotId, hasSegments, segments) ==
  [slotId |-> slotId, hasSegments |-> hasSegments, segments |-> segments]

\* the impressions found under data.data[].imp[] of a parsed API response
ApiImps ==
  { <<>>,
    <<Imp("1", FALSE, <<>>)>>,
    <<Imp("1", TRUE, <<>>)>>,
    <<Imp("1", TRUE, <<"seg_a", "seg_b">>)>> }

\* how a call to the Scope3 API ends
ApiOutcome(kind, imps) == [kind |-> kind, imps |-> imps]
ApiOutcomes ==
  {ApiOutcome(k, <<>>) : k \in {"timeout", "neterr", "badjson", "apierror"}}
  \cup {ApiOutcome("ok", imps) : imps \in ApiImps}

\* structuredSegments: {global: []} plus one entry per impression with segments
RECURSIVE StructuredSegments(_, _, _)
StructuredSegments(imps, i, acc) ==
  IF i > Len(imps) THEN acc
  ELSE StructuredSegments(imps, i + 1,
         IF imps[i].hasSegments /\ imps[i].slotId # Undefined
           THEN (imps[i].slotId :> imps[i].segments) @@ acc
           ELSE acc)

\* mutant of callSegmentApi: a failed call yields segment data
callSegmentApi_FailureAsData(outcome) ==
  IF outcome.kind = "ok"
    THEN StructuredSegments(outcome.imps, 1, EmptySegments)
    ELSE "global" :> <<"seg_a">>

\* callSegmentApi of part_007: null on abort, transport error, unparsable
\* body and data.error
callSegmentApi(outcome) ==
  IF outcome.kind = "ok"
    THEN StructuredSegments(outcome.imps, 1, EmptySegments)
    ELSE Null

\* callSegmentApi of part_005: {global: []} on every failure; data.error is
\* not looked at
callSegmentApi_part005(outcome) ==
  IF outcome.kind = "ok"
    THEN StructuredSegments(outcome.imps, 1, EmptySegments)
    ELSE EmptySegments

\* mutant of ShouldCacheSegments: every value that is not null is cached
ShouldCacheSegments_NonNull(segments) ==
  /\ segments # Null
  /\ Cardinality(DOMAIN segments) > 0

\* the guard of ctx.waitUntil(cacheSegments(...)) in part_007
ShouldCacheSegments(segments) ==
  /\ segments # Null
  /\ Cardinality(DOMAIN segments) > 0
  /\ \/ Len(segments["global"]) > 0
     \/ \E key \in DOMAIN segments : key # "global"

\* the guard of ctx.waitUntil(cacheSegments(...)) in part_005
ShouldCacheSegments_part005(segments) ==
  /\ segments # Null
  /\ Cardinality(DOMAIN segments) > 0

\* part_005: the key is a hash of the whole serialised API request
simpleHash(str) == [simpleHash |-> str]

getCacheKey_part005(apiRequest) ==
  [hostname |-> ApiHostname, hash |-> simpleHash(apiRequest)]

\* buildOpenRtbRequest of part_005 reads no identity cookies
buildOpenRtbRequest_part005(url, etag, lastModified, request) ==
  [buildOpenRtbRequest(url, etag, lastModified, request) EXCEPT !.eids = <<>>]

\* the TTL test with >= in the place of >
SegmentsExpired_AtTtl(entry, t) == t - entry.timestamp >= CACHE_TTL

\* is the stored entry past its TTL at time t
SegmentsExpired(entry, t) == t - entry.timestamp > CACHE_TTL

\* getCachedSegments: null when cache.match throws, finds nothing, or the
\* entry is past the TTL
getCachedSegments(cacheKey, cache, t, throws) ==
  IF throws THEN Null
  ELSE IF cacheKey \notin DOMAIN cache THEN Null
  ELSE IF SegmentsExpired(cache[cacheKey], t) THEN Null
  ELSE cache[cacheKey].structuredSegments

\* the entry cacheSegments builds
SegmentsCacheData(structuredSegments, t) ==
  [structuredSegments |-> structuredSegments, timestamp |-> t]

\* the path ends in a resource extension
ResourceExtensions ==
  {"js", "css", "png", "jpg", "jpeg", "gif", "svg", "webp", "mp4", "webm", "mp3",
   "wav", "pdf", "json", "xml", "woff", "woff2", "ttf", "otf"}

PathExtension(pathname) ==
  CASE pathname = "/site.css" -> "css"
    [] OTHER -> ""

\* mutant of isResource: no path is taken for a resource
isResource_Never(pathname) == FALSE

isResource(pathname) == PathExtension(pathname) \in ResourceExtensions

\* injectIntoHead: the script goes right after the first <head> tag; a
\* document without one is returned as it is
RECURSIVE HeadPosition(_, _)
HeadPosition(html, i) ==
  IF i > Len(html) THEN 0
  ELSE IF html[i].tag = "head" THEN i
  ELSE HeadPosition(html, i + 1)

injectIntoHead(html, scriptToInject) ==
  LET headPosition == HeadPosition(html, 1)
  IN  IF headPosition > 0
        THEN SubSeq(html, 1, headPosition) \o <<scriptToInject>>
             \o SubSeq(html, headPosition + 1, Len(html))
        ELSE html

\* mutant of insertScope3Segments: no default for a missing result
insertScope3Segments_NoDefault(html, baseUrl, structuredSegments) ==
  injectIntoHead(html, Script(structuredSegments, baseUrl))

insertScope3Segments(html, baseUrl, structuredSegments) ==
  LET segments == IF structuredSegments = Null THEN EmptySegments
                  ELSE structuredSegments
  IN  injectIntoHead(html, Script(segments, baseUrl))


(***************************************************************************)
(* Requests, responses and the origin.                                     *)
(***************************************************************************)
Reqs == {"r1", "r2"}

\* an inbound request with its method
InboundMethod(url, request, bot, method) ==
  [url |-> url, request |-> request, bot |-> bot, method |-> method]

Inbound(url, request, bot) == InboundMethod(url, request, bot, "GET")

PlainRequest(ua, sharedid) ==
  Request(ua, NoHeader, NoHeader, sharedid, NoHeader, NoHeader, NoHeader, NoHeader)

\* the inbound requests of the model
MainInputs ==
  { Inbound(UrlNews, PlainRequest("Chrome/100 (Windows)", NoHeader), FALSE),
    Inbound(UrlNews, PlainRequest("Firefox/99 (Windows)", NoHeader), TRUE),
    Inbound(UrlCss, PlainRequest("Chrome/100 (Windows)", NoHeader), FALSE) }

Response(status, etag, lastModified, contentType, body) ==
  [status |-> status, etag |-> etag, lastModified |-> lastModified,
   contentType |-> contentType, body |-> body]

\* a rejected promise / thrown error
Thrown == [thrown |-> TRUE]

\* how a fetch of the origin ends: the origin answers normally, answers 5xx,
\* or the fetch is rejected
OriginOutcomes == {"ok", "error", "neterr"}

OriginErrorResponse ==
  Response(500, NoHeader, NoHeader, "text/html", <<Tag("html"), Tag("body:error")>>)

\* the origin's answer to a request for url with the given conditional
\* headers, while it serves doc: the stylesheet, the JSON feed under /data,
\* or the document; 304 when If-None-Match matches the entity tag, or,
\* without If-None-Match, when If-Modified-Since matches the modification date
OriginAnswer(url, doc, outcome, ifNoneMatch, ifModifiedSince) ==
  CASE outcome = "neterr" -> Thrown
    [] outcome = "error" -> OriginErrorResponse
    [] OTHER ->
       IF isResource(url.pathname)
         THEN Response(200, NoHeader, NoHeader, "text/css", <<Tag("css")>>)
       ELSE IF url.pathname = UrlData.pathname
         THEN Response(200, NoHeader, NoHeader, "application/json", <<Tag("json")>>)
       ELSE IF \/ ifNoneMatch # NoHeader /\ ifNoneMatch = doc.etag
               \/ /\ ifNoneMatch = NoHeader
                  /\ ifModifiedSince # NoHeader
                  /\ ifModifiedSince = doc.lastModified
         THEN Response(304, doc.etag, doc.lastModified, NoHeader, <<>>)
       ELSE Response(200, doc.etag, doc.lastModified, "text/html", doc.html)

\* response.ok
ResponseOk(response) == response.status >= 200 /\ response.status <= 299

\* what the client gets: kind is "html" (rewritten document), "upstream"
\* (passed through), "error" (generated error page) or "exception" (the
\* handler rejected)
Result(kind, status, body) == [kind |-> kind, status |-> status, body |-> body]

EmptyMap == [x \in {} |-> Null]

Env(htmlCache, segmentsCache, apiKey) ==
  [HTML_CACHE |-> htmlCache, SEGMENTS_CACHE |-> segmentsCache, SCOPE3_API_KEY |-> apiKey]

(***************************************************************************)
(* html-cache.js                                                           *)
(***************************************************************************)
HTML_CACHE_PREFIX == "html:"

\* mutant of generateHtmlCacheKey: the query string is kept in the key
generateHtmlCacheKey_WithSearch(url) ==
  [prefix |-> HTML_CACHE_PREFIX, hostname |-> url.hostname,
   pathname |-> <<url.pathname, url.search>>]

\* `${HTML_CACHE_PREFIX}${urlObj.hostname}${urlObj.pathname}`
generateHtmlCacheKey(url) ==
  [prefix |-> HTML_CACHE_PREFIX, hostname |-> url.hostname, pathname |-> url.pathname]

\* is the stored document past its TTL at time t
HtmlExpired(entry, t) == t - entry.timestamp > HTML_CACHE_TTL

\* getCachedHtml: null without the binding, when the KV read throws, when
\* nothing is stored, and when the stored entry is past the TTL
getCachedHtml(url, e, kv, t, throws) ==
  LET cacheKey == generateHtmlCacheKey(url)
  IN  IF ~e.HTML_CACHE THEN Null
      ELSE IF throws THEN Null
      ELSE IF cacheKey \notin DOMAIN kv THEN Null
      ELSE IF HtmlExpired(kv[cacheKey], t) THEN Null
      ELSE [html |-> kv[cacheKey].html, url |-> kv[cacheKey].url,
            timestamp |-> kv[cacheKey].timestamp,
            validation |-> kv[cacheKey].validation,
            cacheTimestamp |-> kv[cacheKey].timestamp]

\* the entry of cacheHtml with the validation headers left out
HtmlCacheData_NoValidation(url, html, response, t) ==
  [html |-> html, url |-> url.href, timestamp |-> t,
   validation |-> [etag |-> NoHeader, lastModified |-> NoHeader]]

\* the entry cacheHtml builds
HtmlCacheData(url, html, response, t) ==
  [html |-> html, url |-> url.href, timestamp |-> t,
   validation |-> [etag |-> response.etag, lastModified |-> response.lastModified]]

\* mutant of cacheHtml: the entry is in the store although put threw
cacheHtml_WrittenOnThrow(url, html, response, e, kv, t, throws) ==
  IF ~e.HTML_CACHE THEN kv
  ELSE [k \in DOMAIN kv \cup {generateHtmlCacheKey(url)} |->
          IF k = generateHtmlCacheKey(url) THEN HtmlCacheData(url, html, response, t)
          ELSE kv[k]]

\* mutant of cacheHtml: the put reads the entry it replaces and keeps its
\* validators
cacheHtml_KeepsOldValidators(url, html, response, e, kv, t, throws) ==
  IF ~e.HTML_CACHE \/ throws THEN kv
  ELSE [k \in DOMAIN kv \cup {generateHtmlCacheKey(url)} |->
          IF k = generateHtmlCacheKey(url)
            THEN IF k \in DOMAIN kv
                   THEN [HtmlCacheData(url, html, response, t)
                           EXCEPT !.validation = kv[k].validation]
                   ELSE HtmlCacheData(url, html, response, t)
            ELSE kv[k]]

\* cacheHtml: the KV store after the call; nothing is written without the
\* binding or when put throws (caught and logged)
cacheHtml(url, html, response, e, kv, t, throws) ==
  IF ~e.HTML_CACHE \/ throws THEN kv
  ELSE [k \in DOMAIN kv \cup {generateHtmlCacheKey(url)} |->
          IF k = generateHtmlCacheKey(url) THEN HtmlCacheData(url, html, response, t)
          ELSE kv[k]]

\* the conditional headers fetchHtmlWithConditional sets
IfNoneMatch(cachedData) ==
  IF cachedData # Null THEN cachedData.validation.etag ELSE NoHeader

\* mutant of IfModifiedSince: the header is never set
IfModifiedSince_Never(cachedData) == NoHeader

IfModifiedSince(cachedData) ==
  IF cachedData # Null THEN cachedData.validation.lastModified ELSE NoHeader

FetchResult(html, response, fromCache, notModified, isFallback, validationInfo) ==
  [html |-> html, response |-> response, fromCache |-> fromCache,
   notModified |-> notModified, isFallback |-> isFallback,
   validationInfo |-> validationInfo]

\* the catch block of fetchHtmlWithConditional
FetchFallback(cachedData) ==
  IF cachedData # Null
    THEN FetchResult(cachedData.html,
                     Response(200, NoHeader, NoHeader, "text/html", cachedData.html),
                     TRUE, FALSE, TRUE, cachedData.validation)
    ELSE Thrown

\* fetchHtmlWithConditional with the 304 branch returning the response's own
\* (empty) body
fetchHtmlWithConditional_304ResponseBody(cachedData, answer) ==
  IF answer = Thrown THEN FetchFallback(cachedData)
  ELSE IF answer.status = 304 /\ cachedData # Null
    THEN FetchResult(answer.body, answer, FALSE, TRUE, FALSE, cachedData.validation)
  ELSE IF ResponseOk(answer)
    THEN FetchResult(answer.body, answer, FALSE, FALSE, FALSE,
                     [etag |-> answer.etag, lastModified |-> answer.lastModified])
  ELSE FetchFallback(cachedData)

\* fetchHtmlWithConditional with a catch block that always rethrows
fetchHtmlWithConditional_NoFallback(cachedData, answer) ==
  IF answer = Thrown THEN Thrown
  ELSE IF answer.status = 304 /\ cachedData # Null
    THEN FetchResult(cachedData.html, answer, TRUE, TRUE, FALSE, cachedData.validation)
  ELSE IF ResponseOk(answer)
    THEN FetchResult(answer.body, answer, FALSE, FALSE, FALSE,
                     [etag |-> answer.etag, lastModified |-> answer.lastModified])
  ELSE Thrown

\* fetchHtmlWithConditional: answer is what fetch(fetchRequest) gave
fetchHtmlWithConditional(cachedData, answer) ==
  IF answer = Thrown THEN FetchFallback(cachedData)
  ELSE IF answer.status = 304 /\ cachedData # Null
    THEN FetchResult(cachedData.html, answer, TRUE, TRUE, FALSE, cachedData.validation)
  ELSE IF ResponseOk(answer)
    THEN FetchResult(answer.body, answer, FALSE, FALSE, FALSE,
                     [etag |-> answer.etag, lastModified |-> answer.lastModified])
  ELSE FetchFallback(cachedData)

\* the guard of cacheHtml with the test on fromCache / notModified left out
ShouldCacheHtml_Always(fetchResult) == TRUE

\* mutant of ShouldCacheHtml: only the notModified flag is looked at
ShouldCacheHtml_NotModifiedOnly(fetchResult) == ~fetchResult.notModified

\* getHtmlWithCache: "if content is new or changed, cache it"
ShouldCacheHtml(fetchResult) == ~fetchResult.fromCache /\ ~fetchResult.notModified

\* statuses whose Response must have a null body (Fetch standard): the
\* Response constructor throws a TypeError when given a body with one of them
NullBodyStatuses == {101, 204, 205, 304}

\* 'HIT' | 'MISS', then '-CONDITIONAL', then '-FALLBACK'
CacheStatus(fetchResult) ==
  CASE fetchResult.fromCache /\ fetchResult.notModified -> "HIT-CONDITIONAL"
    [] fetchResult.fromCache /\ fetchResult.isFallback -> "HIT-FALLBACK"
    [] fetchResult.fromCache -> "HIT"
    [] fetchResult.notModified -> "MISS-CONDITIONAL"
    [] OTHER -> "MISS"

\* fetchHtmlWithIntelligentCache, after getHtmlWithCache returned fetchResult:
\* new Response(fetchResult.html, {status, headers}) and the cache status
fetchHtmlWithIntelligentCache(fetchResult) ==
  LET status == IF fetchResult.isFallback THEN 200 ELSE fetchResult.response.status
  IN  IF fetchResult = Thrown THEN Thrown
      ELSE IF status \in NullBodyStatuses THEN Thrown
      ELSE [html |-> fetchResult.html,
            response |-> Response(status, fetchResult.response.etag,
                                  fetchResult.response.lastModified,
                                  fetchResult.response.contentType, fetchResult.html),
            cacheStatus |-> CacheStatus(fetchResult)]

(***************************************************************************)
(* The KV segment cache and the classification call of the proxy handler.  *)
(***************************************************************************)
\* `url:${targetUrl}`
UrlCacheKey(url) == [prefix |-> "url:", href |-> url.href]

\* getCachedSegments (KV): the stored segments, null when the binding is
\* missing, the read throws, or nothing is stored
getCachedSegmentsKV(cacheKey, e, kv, throws) ==
  IF ~e.SEGMENTS_CACHE \/ throws THEN Null
  ELSE IF cacheKey \notin DOMAIN kv THEN Null
  ELSE [segments |-> kv[cacheKey].segments]

\* cacheSegments (KV): the store after the put
cacheSegmentsKV(cacheKey, segments, e, kv, t, throws) ==
  IF ~e.SEGMENTS_CACHE \/ throws THEN kv
  ELSE [k \in DOMAIN kv \cup {cacheKey} |->
          IF k = cacheKey THEN [segments |-> segments, cached_at |-> t] ELSE kv[k]]

\* how the call of getScope3SegmentsWithTimeout to the API ends
KeyValOutcomes ==
  {[kind |-> k, values |-> <<>>] : k \in {"timeout", "neterr", "httperror"}}
  \cup {[kind |-> "ok", values |-> v] : v \in {<<>>, <<"seg_a", "seg_b">>}}

\* getScope3SegmentsWithTimeout: [] on abort, transport error and non-2xx
getScope3SegmentsWithTimeout(outcome) ==
  IF outcome.kind = "ok" THEN outcome.values ELSE <<>>

\* injectSegmentsIntoPage: the rewritten page, kept as the document it is
\* made from and the value given to window.scope3_segments
injectSegmentsIntoPage(html, segments) ==
  [page |-> html, scope3_segments |-> IF segments = Null THEN <<>> ELSE segments.segments]

\* mutant of RewrittenHeaders: the rewritten response gets headers of its own
RewrittenHeaders_Fresh(response, cors) ==
  [etag |-> NoHeader, lastModified |-> NoHeader, contentType |-> "text/html",
   cors |-> cors]

\* new Headers(response.headers) of the response being rewritten, with the
\* three Access-Control-Allow-* headers set by injectSegmentsIntoPage
RewrittenHeaders(response, cors) ==
  [etag |-> response.etag, lastModified |-> response.lastModified,
   contentType |-> response.contentType, cors |-> cors]

(***************************************************************************)
(* The state of a request in flight.                                       *)
(***************************************************************************)
IdleReq ==
  [pc |-> "idle", input |-> Null, response |-> Null, cacheKey |-> Null,
   segments |-> Null, segSource |-> "none", segThrew |-> FALSE,
   segStored |-> FALSE,
   apiOutcome |-> Null, apiCalls |-> 0, scheduled |-> FALSE,
   htmlStored |-> Null, cachedData |-> Null, htmlThrew |-> FALSE,
   origin |-> "none", fetchResult |-> Null, putThrew |-> FALSE,
   docVia |-> "none", direct |-> "none", apiStart |-> 0, timer |-> "off",
   headers |-> Null, conditional |-> Null, result |-> Null]

FingerprintWorkers == {"part_007", "part_005"}
ProxyWorkers == {"part_006"}

\* a cookie value that is not a valid percent-encoding
MalformedCookie == "%E0%A4%A"

\* parseCookies: decodeURIComponent throws URIError on a malformed value
parseCookies(request) ==
  IF request.sharedid = MalformedCookie THEN Thrown ELSE [_sharedid |-> request.sharedid]

\* the variant of a function the deployed worker script has; the newer
\* buildOpenRtbRequest starts with parseCookies(request), the older one reads
\* no cookie
BuildRequestOf(w, url, etag, lastModified, request) ==
  IF w = "part_005"
    THEN buildOpenRtbRequest_part005(url, etag, lastModified, request)
  ELSE IF parseCookies(request) = Thrown THEN Thrown
  ELSE buildOpenRtbRequest(url, etag, lastModified, request)

\* how a handler sees the answer to its fetch of the origin
OriginKind(answer) ==
  CASE answer = Thrown -> "neterr"
    [] answer.status = 304 -> "304"
    [] ResponseOk(answer) -> "200"
    [] OTHER -> "error"

CacheKeyOf(w, apiRequest) ==
  IF w = "part_005" THEN getCacheKey_part005(apiRequest) ELSE getCacheKey(apiRequest)

CallSegmentApiOf(w, outcome) ==
  IF w = "part_005" THEN callSegmentApi_part005(outcome) ELSE callSegmentApi(outcome)

ShouldCacheSegmentsOf(w, segments) ==
  IF w = "part_005" THEN ShouldCacheSegments_part005(segments)
  ELSE ShouldCacheSegments(segments)

(***************************************************************************)
(* handleRequest (part_007, part_005).                                     *)
(***************************************************************************)
\* entry: resource paths and bots go straight to fetch(originRequest)
StartRequest(r, in) ==
  /\ worker \in FingerprintWorkers
  /\ req[r].pc = "idle"
  /\ req' = [req EXCEPT ![r] =
       [IdleReq EXCEPT !.input = in,
                       !.pc = IF isResource(in.url.pathname) \/ in.bot
                                THEN "passthrough" ELSE "originFetch"]]
  /\ UNCHANGED <<keyVars, worker, env, now, segCache, pending, htmlKV, segKV>>

\* return fetch(originRequest), outside the try block
Passthrough(r, outcome, doc) ==
  /\ worker \in FingerprintWorkers
  /\ req[r].pc = "passthrough"
  /\ LET answer == OriginAnswer(req[r].input.url, doc, outcome, NoHeader, NoHeader)
     IN  req' = [req EXCEPT ![r].pc = "done",
                            ![r].result =
                               IF answer = Thrown THEN Result("exception", 0, <<>>)
                               ELSE Result("upstream", answer.status, answer.body)]
  /\ UNCHANGED <<keyVars, worker, env, now, segCache, pending, htmlKV, segKV>>

\* mutant of FetchOrigin: the segment lookup is started without waiting for
\* the origin's answer, on a key without validators
FetchOrigin_NoAwait(r, outcome, doc) ==
  /\ worker \in FingerprintWorkers
  /\ req[r].pc = "originFetch"
  /\ req' = [req EXCEPT
       ![r].pc = "segGet",
       ![r].cacheKey =
          CacheKeyOf(worker,
            BuildRequestOf(worker, req[r].input.url, NoHeader, NoHeader,
                           req[r].input.request))]
  /\ UNCHANGED <<keyVars, worker, env, now, segCache, pending, htmlKV, segKV>>

\* await fetch(originRequest) with the inbound method, then
\* buildOpenRtbRequest and getCacheKey; a rejected fetch and a throw of
\* buildOpenRtbRequest both end in the catch block's error page
FetchOrigin(r, outcome, doc) ==
  /\ worker \in FingerprintWorkers
  /\ req[r].pc = "originFetch"
  /\ LET in == req[r].input
         response == OriginAnswer(in.url, doc, outcome, NoHeader, NoHeader)
         apiRequest == BuildRequestOf(worker, in.url, response.etag,
                                      response.lastModified, in.request)
     IN  IF response = Thrown
           THEN req' = [req EXCEPT ![r].pc = "done",
                                   ![r].origin = OriginKind(response),
                                   ![r].result = Result("error", 500, <<>>)]
         ELSE IF apiRequest = Thrown
           THEN req' = [req EXCEPT ![r].pc = "done",
                                   ![r].origin = OriginKind(response),
                                   ![r].response = response,
                                   ![r].result = Result("error", 500, <<>>)]
           ELSE req' = [req EXCEPT
                  ![r].pc = "segGet",
                  ![r].origin = OriginKind(response),
                  ![r].response = response,
                  ![r].cacheKey = CacheKeyOf(worker, apiRequest)]
  /\ UNCHANGED <<keyVars, worker, env, now, segCache, pending, htmlKV, segKV>>

\* let segments = await getCachedSegments(cacheKey, env); on a hit the
\* document is rewritten and returned
GetSegments(r, throws) ==
  /\ worker \in FingerprintWorkers
  /\ req[r].pc = "segGet"
  /\ LET segments == getCachedSegments(req[r].cacheKey, segCache, now, throws)
     IN  IF segments = Null
           THEN req' = [req EXCEPT ![r].pc = "callApi", ![r].segThrew = throws]
           ELSE req' = [req EXCEPT
                  ![r].pc = "done",
                  ![r].segments = segments,
                  ![r].segSource = "cache",
                  ![r].segThrew = throws,
                  ![r].headers = RewrittenHeaders(req[r].response, FALSE),
                  ![r].result =
                     Result("html", req[r].response.status,
                            insertScope3Segments(req[r].response.body, Undefined,
                                                 segments))]
  /\ UNCHANGED <<keyVars, worker, env, now, segCache, pending, htmlKV, segKV>>

\* mutant of CallApi: a request whose key was already classified by another
\* request in flight takes that request's result and issues no call
CallApi_Coalesced(r, outcome) ==
  /\ worker \in FingerprintWorkers
  /\ req[r].pc = "callApi"
  /\ LET others == {s \in Reqs \ {r} : /\ req[s].pc = "done"
                                        /\ req[s].segSource = "api"
                                        /\ req[s].cacheKey = req[r].cacheKey}
         shared == others # {}
         segments == IF shared
                       THEN req[CHOOSE s \in others : TRUE].segments
                       ELSE CallSegmentApiOf(worker, outcome)
         cache == ~shared /\ ShouldCacheSegmentsOf(worker, segments)
     IN  /\ req' = [req EXCEPT
                  ![r].pc = "done",
                  ![r].segments = segments,
                  ![r].segSource = "api",
                  ![r].segThrew = FALSE,
                  ![r].apiOutcome = outcome,
                  ![r].apiCalls = IF shared THEN 0 ELSE 1,
                  ![r].scheduled = cache,
                  ![r].headers = RewrittenHeaders(req[r].response, FALSE),
                  ![r].result =
                     Result("html", req[r].response.status,
                            insertScope3Segments(req[r].response.body, Undefined,
                                                 segments))]
         /\ pending' = IF cache
                         THEN pending \cup {[req |-> r, key |-> req[r].cacheKey,
                                             data |-> SegmentsCacheData(segments, now)]}
                         ELSE pending
  /\ UNCHANGED <<keyVars, worker, env, now, segCache, htmlKV, segKV>>

\* segments = await callSegmentApi(apiRequest, env), the guarded
\* ctx.waitUntil(cacheSegments(cacheKey, segments, env)), then the document
\* is rewritten and returned
CallApi(r, outcome) ==
  /\ worker \in FingerprintWorkers
  /\ req[r].pc = "callApi"
  /\ LET segments == CallSegmentApiOf(worker, outcome)
         cache == ShouldCacheSegmentsOf(worker, segments)
     IN  /\ req' = [req EXCEPT
                  ![r].pc = "done",
                  ![r].segments = segments,
                  ![r].segSource = "api",
                  ![r].segThrew = FALSE,
                  ![r].apiOutcome = outcome,
                  ![r].apiCalls = 1,
                  ![r].scheduled = cache,
                  ![r].headers = RewrittenHeaders(req[r].response, FALSE),
                  ![r].result =
                     Result("html", req[r].response.status,
                            insertScope3Segments(req[r].response.body, Undefined,
                                                 segments))]
         /\ pending' = IF cache
                         THEN pending \cup {[req |-> r, key |-> req[r].cacheKey,
                                             data |-> SegmentsCacheData(segments, now)]}
                         ELSE pending
  /\ UNCHANGED <<keyVars, worker, env, now, segCache, htmlKV, segKV>>

\* the response has been returned and the promises given to ctx.waitUntil
\* have settled: the request is over and the slot takes the next one
Finish(r) ==
  /\ req[r].pc = "done"
  /\ \A p \in pending : p.req # r
  /\ req' = [req EXCEPT ![r] = IdleReq]
  /\ UNCHANGED <<keyVars, worker, env, now, segCache, pending, htmlKV, segKV>>

\* cacheSegments: the cache.put handed to waitUntil completes
CachePutCompletes(p) ==
  /\ p \in pending
  /\ segCache' = [k \in DOMAIN segCache \cup {p.key} |->
                    IF k = p.key THEN p.data ELSE segCache[k]]
  /\ pending' = pending \ {p}
  /\ UNCHANGED <<keyVars, worker, env, now, htmlKV, segKV, req>>

\* mutant of CachePutFails: the put that is lost leaves a truncated entry
CachePutFails_Partial(p) ==
  /\ p \in pending
  /\ pending' = pending \ {p}
  /\ segCache' = [k \in DOMAIN segCache \cup {p.key} |->
                    IF k = p.key
                      THEN [p.data EXCEPT !.structuredSegments = EmptySegments]
                      ELSE segCache[k]]
  /\ UNCHANGED <<keyVars, worker, env, now, htmlKV, segKV, req>>

\* cacheSegments: cache.put throws (caught and logged), or the isolate is
\* torn down before the put is done
CachePutFails(p) ==
  /\ p \in pending
  /\ pending' = pending \ {p}
  /\ UNCHANGED <<keyVars, worker, env, now, segCache, htmlKV, segKV, req>>

(***************************************************************************)
(* handleProxyRequest (part_006) over html-cache.js and the KV caches.     *)
(***************************************************************************)
\* url-utils.isLikelyHtmlUrl: the URL does not end in a resource extension
isLikelyHtmlUrl(url) == ~isResource(url.pathname)

\* the target URLs handed to handleProxyRequest
ProxyInputs == {in \in MainInputs : ~in.bot}

\* entry of handleProxyRequest
ProxyStart(r, in) ==
  /\ worker \in ProxyWorkers
  /\ req[r].pc = "idle"
  /\ req' = [req EXCEPT ![r] =
       [IdleReq EXCEPT !.input = in,
                       !.cacheKey = UrlCacheKey(in.url),
                       !.pc = IF isLikelyHtmlUrl(in.url) THEN "htmlGet"
                              ELSE "directFetch"]]
  /\ UNCHANGED <<keyVars, worker, env, now, segCache, pending, htmlKV, segKV>>

\* getHtmlWithCache: const cachedData = await getCachedHtml(url, env)
HtmlGet(r, throws) ==
  /\ worker \in ProxyWorkers
  /\ req[r].pc = "htmlGet"
  /\ throws => env.HTML_CACHE
  /\ LET url == req[r].input.url
         cacheKey == generateHtmlCacheKey(url)
     IN  req' = [req EXCEPT
           ![r].pc = "htmlFetch",
           ![r].htmlStored = IF cacheKey \in DOMAIN htmlKV THEN htmlKV[cacheKey] ELSE Null,
           ![r].cachedData = getCachedHtml(url, env, htmlKV, now, throws),
           ![r].htmlThrew = throws]
  /\ UNCHANGED <<keyVars, worker, env, now, segCache, pending, htmlKV, segKV>>

\* the rest of getHtmlWithCache (fetchHtmlWithConditional, the guarded
\* cacheHtml), fetchHtmlWithIntelligentCache around it, and the content-type
\* test of handleProxyRequest; a throw sends handleProxyRequest to its
\* direct fetch
HtmlFetch(r, outcome, doc, putThrows) ==
  /\ worker \in ProxyWorkers
  /\ req[r].pc = "htmlFetch"
  /\ LET url == req[r].input.url
         cachedData == req[r].cachedData
         answer == OriginAnswer(url, doc, outcome, IfNoneMatch(cachedData),
                                IfModifiedSince(cachedData))
         fetchResult == fetchHtmlWithConditional(cachedData, answer)
         write == IF fetchResult = Thrown THEN FALSE ELSE ShouldCacheHtml(fetchResult)
         wrapped == fetchHtmlWithIntelligentCache(fetchResult)
     IN  /\ putThrows => write /\ env.HTML_CACHE
         /\ htmlKV' = IF write
                        THEN cacheHtml(url, fetchResult.html, fetchResult.response,
                                       env, htmlKV, now, putThrows)
                        ELSE htmlKV
         /\ req' = [req EXCEPT
              ![r].origin = OriginKind(answer),
              ![r].conditional = [ifNoneMatch |-> IfNoneMatch(cachedData),
                                  ifModifiedSince |-> IfModifiedSince(cachedData)],
              ![r].fetchResult = fetchResult,
              ![r].putThrew = putThrows,
              ![r].response = IF wrapped = Thrown THEN Null ELSE wrapped.response,
              ![r].docVia = IF wrapped = Thrown THEN "none" ELSE "cache-module",
              ![r].pc = IF wrapped = Thrown THEN "directFetch"
                        ELSE IF wrapped.response.contentType # "text/html" THEN "done"
                        ELSE "kvSegGet",
              ![r].result =
                 IF wrapped # Thrown /\ wrapped.response.contentType # "text/html"
                   THEN Result("upstream", wrapped.response.status, wrapped.response.body)
                   ELSE Null]
  /\ UNCHANGED <<keyVars, worker, env, now, segCache, pending, segKV>>

\* response = await fetch(proxyRequest): a rejection goes to the outer catch,
\* a non-HTML answer is passed through
DirectFetch(r, outcome, doc) ==
  /\ worker \in ProxyWorkers
  /\ req[r].pc = "directFetch"
  /\ LET answer == OriginAnswer(req[r].input.url, doc, outcome, NoHeader, NoHeader)
     IN  req' =
           IF answer = Thrown
             THEN [req EXCEPT ![r].pc = "done", ![r].docVia = "direct",
                              ![r].direct = OriginKind(answer),
                              ![r].result = Result("error", 500, <<>>)]
           ELSE IF answer.contentType # "text/html"
             THEN [req EXCEPT ![r].pc = "done", ![r].docVia = "direct",
                              ![r].direct = OriginKind(answer),
                              ![r].response = answer,
                              ![r].result = Result("upstream", answer.status, answer.body)]
           ELSE [req EXCEPT ![r].pc = "kvSegGet", ![r].docVia = "direct",
                            ![r].direct = OriginKind(answer),
                            ![r].response = answer]
  /\ UNCHANGED <<keyVars, worker, env, now, segCache, pending, htmlKV, segKV>>

\* let segments = await getCachedSegments(cacheKey, env); on a hit the page
\* is rewritten and returned (the locals of getHtmlWithCache are gone by now)
KvSegGet(r, throws) ==
  /\ worker \in ProxyWorkers
  /\ req[r].pc = "kvSegGet"
  /\ LET segments == getCachedSegmentsKV(req[r].cacheKey, env, segKV, throws)
         stored == req[r].cacheKey \in DOMAIN segKV
     IN  IF segments = Null
           THEN req' = [req EXCEPT ![r].pc = "kvCallApi", ![r].segThrew = throws,
                                   ![r].segStored = stored,
                                   ![r].htmlStored = Null, ![r].cachedData = Null,
                                   ![r].fetchResult = Null, ![r].conditional = Null]
           ELSE req' = [req EXCEPT
                  ![r].pc = "done",
                  ![r].segments = segments,
                  ![r].segSource = "cache",
                  ![r].segThrew = throws,
                  ![r].segStored = stored,
                  ![r].htmlStored = Null, ![r].cachedData = Null,
                  ![r].fetchResult = Null, ![r].conditional = Null,
                  ![r].headers = RewrittenHeaders(req[r].response, TRUE),
                  ![r].result =
                     Result("html", req[r].response.status,
                            injectSegmentsIntoPage(req[r].response.body, segments))]
  /\ UNCHANGED <<keyVars, worker, env, now, segCache, pending, htmlKV, segKV>>

\* segments = await getScope3SegmentsWithTimeout(pageData, env, ctx), the
\* guarded await cacheSegments(cacheKey, segments, env), then the page is
\* rewritten and returned
KvCallApi(r, outcome, putThrows) ==
  /\ worker \in ProxyWorkers
  /\ req[r].pc = "kvCallApi"
  /\ LET values == getScope3SegmentsWithTimeout(outcome)
         cache == Len(values) > 0
     IN  /\ putThrows => cache
         /\ segKV' = IF cache
                       THEN cacheSegmentsKV(req[r].cacheKey, values, env, segKV, now,
                                            putThrows)
                       ELSE segKV
         /\ req' = [req EXCEPT
                  ![r].pc = "done",
                  ![r].segments = [segments |-> values],
                  ![r].segSource = "api",
                  ![r].apiOutcome = outcome,
                  ![r].apiCalls = 1,
                  ![r].scheduled = cache,
                  ![r].putThrew = putThrows,
                  ![r].headers = RewrittenHeaders(req[r].response, TRUE),
                  ![r].result =
                     Result("html", req[r].response.status,
                            injectSegmentsIntoPage(req[r].response.body,
                                                   [segments |-> values]))]
  /\ UNCHANGED <<keyVars, worker, env, now, segCache, pending, htmlKV>>

(***************************************************************************)
(* The environment: the clock and the platform's expiry of stored entries. *)
(***************************************************************************)
Tick ==
  /\ now < MaxTime
  /\ now' = now + 1
  /\ UNCHANGED <<keyVars, worker, env, segCache, pending, htmlKV, segKV, req>>

\* Cache-Control: max-age: the Cache API drops an entry past its TTL
CacheExpires(k) ==
  /\ k \in DOMAIN segCache
  /\ SegmentsExpired(segCache[k], now)
  /\ segCache' = [x \in DOMAIN segCache \ {k} |-> segCache[x]]
  /\ UNCHANGED <<keyVars, worker, env, now, pending, htmlKV, segKV, req>>

\* expirationTtl: KV deletes the document entry once its TTL has run out
HtmlKvExpires(k) ==
  /\ k \in DOMAIN htmlKV
  /\ now - htmlKV[k].timestamp >= HTML_CACHE_TTL
  /\ htmlKV' = [x \in DOMAIN htmlKV \ {k} |-> htmlKV[x]]
  /\ UNCHANGED <<keyVars, worker, env, now, segCache, pending, segKV, req>>

\* expirationTtl: KV deletes the segments entry once its TTL has run out
SegKvExpires(k) ==
  /\ k \in DOMAIN segKV
  /\ now - segKV[k].cached_at >= CACHE_TTL
  /\ segKV' = [x \in DOMAIN segKV \ {k} |-> segKV[x]]
  /\ UNCHANGED <<keyVars, worker, env, now, segCache, pending, htmlKV, req>>

\* a deployment: one of the worker scripts; the fingerprint workers use
\* caches.default and none of the KV bindings
Init ==
  /\ keyIn = Null
  /\ keyOut = Null
  /\ worker \in FingerprintWorkers \cup ProxyWorkers
  /\ env \in {Env(h, TRUE, TRUE) : h \in BOOLEAN}
  /\ worker \in FingerprintWorkers => env.HTML_CACHE
  /\ now = 0
  /\ segCache = EmptyMap
  /\ pending = {}
  /\ htmlKV = EmptyMap
  /\ segKV = EmptyMap
  /\ req = [r \in Reqs |-> IdleReq]

\* the steps of handleRequest in one slot, over the given inbound requests
\* and origin documents
FingerprintStep(r, inputs, docs) ==
  \/ \E in \in inputs : StartRequest(r, in)
  \/ \E outcome \in OriginOutcomes, doc \in docs : Passthrough(r, outcome, doc)
  \/ \E outcome \in OriginOutcomes, doc \in docs : FetchOrigin(r, outcome, doc)
  \/ \E throws \in BOOLEAN : GetSegments(r, throws)
  \/ \E outcome \in ApiOutcomes : CallApi(r, outcome)

\* the steps of handleProxyRequest in one slot
ProxyStep(r, inputs, docs) ==
  \/ \E in \in inputs : ProxyStart(r, in)
  \/ \E throws \in BOOLEAN : HtmlGet(r, throws)
  \/ \E outcome \in OriginOutcomes, doc \in docs, putThrows \in BOOLEAN :
       HtmlFetch(r, outcome, doc, putThrows)
  \/ \E outcome \in OriginOutcomes, doc \in docs : DirectFetch(r, outcome, doc)
  \/ \E throws \in BOOLEAN : KvSegGet(r, throws)
  \/ \E outcome \in KeyValOutcomes, putThrows \in BOOLEAN : KvCallApi(r, outcome, putThrows)

\* the requests of one slot
RequestStep(r) ==
  \/ FingerprintStep(r, MainInputs, OriginDocs)
  \/ ProxyStep(r, ProxyInputs, OriginDocs)
  \/ Finish(r)

EnvStep ==
  \/ \E p \in pending : CachePutCompletes(p)
  \/ \E p \in pending : CachePutFails(p)
  \/ Tick
  \/ \E k \in DOMAIN segCache : CacheExpires(k)
  \/ \E k \in DOMAIN htmlKV : HtmlKvExpires(k)
  \/ \E k \in DOMAIN segKV : SegKvExpires(k)

Next == RequestStep("r1") \/ EnvStep

Spec == Init /\ [][Next]_vars

(***************************************************************************)
(* The same handlers on the inbound requests at the edge of what they      *)
(* expect: a POST, a malformed cookie, a JSON feed under a path without    *)
(* extension, and a stylesheet.                                            *)
(***************************************************************************)
EdgeInputs ==
  { InboundMethod(UrlNews, PlainRequest("Chrome/100 (Windows)", NoHeader), FALSE, "POST"),
    Inbound(UrlNews, PlainRequest("Chrome/100 (Windows)", MalformedCookie), FALSE),
    Inbound(UrlCss, PlainRequest("Chrome/100 (Windows)", NoHeader), FALSE) }

\* the target URLs handed to handleProxyRequest
EdgeProxyInputs ==
  { Inbound(UrlData, PlainRequest("Chrome/100 (Windows)", NoHeader), FALSE),
    Inbound(UrlCss, PlainRequest("Chrome/100 (Windows)", NoHeader), FALSE) }

EdgeDocs == {DocV1}

NextEdge ==
  \/ FingerprintStep("r1", EdgeInputs, EdgeDocs)
  \/ ProxyStep("r1", EdgeProxyInputs, EdgeDocs)
  \/ Finish("r1")
  \/ EnvStep

SpecEdge == Init /\ [][NextEdge]_vars

(***************************************************************************)
(* The cache-key function applied to pairs of requests, as handleRequest    *)
(* applies it: buildOpenRtbRequest, then getCacheKey.                       *)
(***************************************************************************)
KeyUrls == {UrlHome, UrlNews}
KeyEtags == {NoHeader, "e1", "e2"}
KeyLastModifieds == {NoHeader, "m1"}
KeySharedIds == {NoHeader, "sid1", "sid2"}
KeyUid2s == {NoHeader, "tok1"}

KeyInputs ==
  [url : KeyUrls, etag : KeyEtags, lastModified : KeyLastModifieds,
   request : {Request(ua, NoHeader, NoHeader, sid, NoHeader, NoHeader, uid2, NoHeader) :
                ua \in UAStrings, sid \in KeySharedIds, uid2 \in KeyUid2s}]

ApiRequestOf(in) == buildOpenRtbRequest(in.url, in.etag, in.lastModified, in.request)

InitKey ==
  /\ keyIn \in KeyInputs \X KeyInputs
  /\ keyOut = Null
  /\ worker = "part_007"
  /\ env = Env(TRUE, TRUE, TRUE)
  /\ now = 0
  /\ segCache = EmptyMap
  /\ pending = {}
  /\ htmlKV = EmptyMap
  /\ segKV = EmptyMap
  /\ req = [r \in Reqs |-> IdleReq]

ComputeKeys ==
  /\ keyOut = Null
  /\ keyOut' = [api |-> <<ApiRequestOf(keyIn[1]), ApiRequestOf(keyIn[2])>>,
                key |-> <<getCacheKey(ApiRequestOf(keyIn[1])),
                          getCacheKey(ApiRequestOf(keyIn[2]))>>]
  /\ UNCHANGED <<keyIn, mainVars>>

NextKey == ComputeKeys

SpecKey == InitKey /\ [][NextKey]_vars

\* the two API requests are equal in every field but device.ua
DifferOnlyInUa(a, b) ==
  /\ a.device.ua # b.device.ua
  /\ [a EXCEPT !.device.ua = ""] = [b EXCEPT !.device.ua = ""]

\* the identity tokens of an API request, as (source, id) pairs
TokenSet(api) == {<<api.eids[i].source, api.eids[i].uids[1].id>> : i \in DOMAIN api.eids}

\* C6 (as claimed): requests that differ only in the raw user-agent string
\* have the same cache key.
C6_OnlyUaDiffers_SameKey ==
  keyOut # Null =>
    (DifferOnlyInUa(keyOut.api[1], keyOut.api[2]) => keyOut.key[1] = keyOut.key[2])

\* both user-agent strings are non-empty and parse to the same browser and OS name
SameUaFamily(a, b) ==
  /\ a.device.ua # "" /\ b.device.ua # ""
  /\ UAParser(a.device.ua).browser = UAParser(b.device.ua).browser
  /\ UAParser(a.device.ua).os = UAParser(b.device.ua).os

\* C6 (amended): requests that differ only in the raw user-agent string, both
\* strings non-empty and parsing to the same browser name and OS name, have
\* the same cache key.
C6_SameUaFamily_SameKey ==
  keyOut # Null =>
    (DifferOnlyInUa(keyOut.api[1], keyOut.api[2])
       /\ SameUaFamily(keyOut.api[1], keyOut.api[2])
     => keyOut.key[1] = keyOut.key[2])

C6_Witness ==
  /\ keyOut # Null
  /\ DifferOnlyInUa(keyOut.api[1], keyOut.api[2])
  /\ SameUaFamily(keyOut.api[1], keyOut.api[2])
  /\ keyOut.key[1] = keyOut.key[2]

\* C7: requests that differ in target URL, in etag, in last-modified or in
\* their set of identity tokens have different cache keys.
C7_UrlValidatorsTokens_DistinctKeys ==
  keyOut # Null =>
    LET a == keyOut.api[1]
        b == keyOut.api[2]
    IN  (\/ a.site.page # b.site.page
         \/ a.site.etag # b.site.etag
         \/ a.site.last_modified # b.site.last_modified
         \/ TokenSet(a) # TokenSet(b))
        => keyOut.key[1] # keyOut.key[2]

\* two requests for the same page and content version, same device, that
\* differ only in the identity tokens, with different keys
C7_Witness ==
  /\ keyOut # Null
  /\ [keyOut.api[1] EXCEPT !.eids = <<>>] = [keyOut.api[2] EXCEPT !.eids = <<>>]
  /\ TokenSet(keyOut.api[1]) # TokenSet(keyOut.api[2])
  /\ TokenSet(keyOut.api[1]) # {} /\ TokenSet(keyOut.api[2]) # {}
  /\ keyOut.key[1] # keyOut.key[2]

(***************************************************************************)
(* Properties of the request handlers.                                     *)
(***************************************************************************)
\* the classification call of request r errored, timed out, or gave only an
\* empty global slot
CallFailedOrEmpty(r) ==
  /\ worker \in FingerprintWorkers
  /\ req[r].apiOutcome # Null
  /\ \/ req[r].apiOutcome.kind # "ok"
     \/ req[r].segments = EmptySegments

\* C1: in handleRequest, a classification call that errors, times out or
\* returns only an empty global slot never has a cacheSegments write issued or
\* scheduled for its key.
C1_FailedCall_NoCacheWrite ==
  \A r \in Reqs :
    CallFailedOrEmpty(r) =>
      /\ ~req[r].scheduled
      /\ \A p \in pending : p.req # r

\* every slot of a Segments value is an empty list
AllSlotsEmpty(segments) == \A slot \in DOMAIN segments : Len(segments[slot]) = 0

\* C8: every Segments value written to the segment cache of part_007 (stored,
\* or handed to cache.put) has at least one slot whose list is non-empty.
C8_CachedSegments_HaveNonEmptySlot ==
  worker = "part_007" =>
    /\ \A k \in DOMAIN segCache : ~AllSlotsEmpty(segCache[k].structuredSegments)
    /\ \A p \in pending : ~AllSlotsEmpty(p.data.structuredSegments)

\* the step in which request r gets the answer of getCachedSegments
SegGetStep(r) ==
  /\ worker \in FingerprintWorkers
  /\ req[r].pc = "segGet"
  /\ req'[r].pc # "segGet"

\* the step in which request r gets the answer of getCachedHtml
HtmlGetStep(r) ==
  /\ worker \in ProxyWorkers
  /\ req[r].pc = "htmlGet"
  /\ req'[r].pc # "htmlGet"

\* an entry is stored under the key of r and its age is within the TTL
SegStoredFresh(r) ==
  /\ req[r].cacheKey \in DOMAIN segCache
  /\ now - segCache[req[r].cacheKey].timestamp <= CACHE_TTL

HtmlStoredFresh(r) ==
  /\ generateHtmlCacheKey(req[r].input.url) \in DOMAIN htmlKV
  /\ now - htmlKV[generateHtmlCacheKey(req[r].input.url)].timestamp <= HTML_CACHE_TTL

\* C10 (as claimed): for both caches, get returns an entry if and only if an
\* entry is stored under the key and now - timestamp <= TTL.
C10_Get_IffStoredAndFresh ==
  [][\A r \in Reqs :
       /\ SegGetStep(r) => (req'[r].segSource = "cache" <=> SegStoredFresh(r))
       /\ HtmlGetStep(r) => (req'[r].cachedData # Null <=> HtmlStoredFresh(r))]_vars

\* C10 (amended): for both caches, get returns an entry if and only if an
\* entry is stored under the key, now - timestamp <= TTL, and the read of
\* the backing store did not throw.
C10_Get_IffStoredFreshAndRead ==
  [][\A r \in Reqs :
       /\ SegGetStep(r) =>
            (req'[r].segSource = "cache" <=> SegStoredFresh(r) /\ ~req'[r].segThrew)
       /\ HtmlGetStep(r) =>
            (req'[r].cachedData # Null <=> HtmlStoredFresh(r) /\ ~req'[r].htmlThrew)]_vars

\* a lookup that returned the entry at the last tick of its life
C10_Witness ==
  \E r \in Reqs :
    /\ worker \in FingerprintWorkers
    /\ req[r].segSource = "cache"
    /\ req[r].cacheKey \in DOMAIN segCache
    /\ now - segCache[req[r].cacheKey].timestamp = CACHE_TTL

\* getHtmlWithCache has returned or thrown for request r
HtmlCallDone(r) == worker \in ProxyWorkers /\ req[r].fetchResult # Null

\* the key of the document of request r
HtmlKeyOf(r) == generateHtmlCacheKey(req[r].input.url)

\* C2: given a cached document entry, when the origin answers the
\* conditional fetch with 304, the result carries exactly the stored body, is
\* marked as served from cache, and the stored entry is not written.
C2_NotModified_CachedBody_NoWrite ==
  \A r \in Reqs :
    (HtmlCallDone(r) /\ req[r].origin = "304" /\ req[r].cachedData # Null) =>
      /\ req[r].fetchResult # Thrown
      /\ req[r].fetchResult.html = req[r].htmlStored.html
      /\ req[r].fetchResult.fromCache
      /\ req[r].fetchResult.notModified
      /\ HtmlKeyOf(r) \in DOMAIN htmlKV => htmlKV[HtmlKeyOf(r)] = req[r].htmlStored

\* a 304 revalidation of an entry stored at an earlier tick
C2_Witness ==
  \E r \in Reqs :
    /\ HtmlCallDone(r)
    /\ req[r].origin = "304"
    /\ req[r].fetchResult.fromCache
    /\ req[r].fetchResult.html = HtmlV1
    /\ HtmlKeyOf(r) \in DOMAIN htmlKV
    /\ htmlKV[HtmlKeyOf(r)] = req[r].htmlStored
    /\ req[r].htmlStored.timestamp < now

\* the fetch of the origin failed: rejected, or answered with an error status
OriginFailed(r) == req[r].origin \in {"neterr", "error"}

\* the result of r is the fallback made from the given entry's body
IsFallbackOf(r, html) ==
  /\ req[r].fetchResult # Thrown
  /\ req[r].fetchResult.isFallback
  /\ req[r].fetchResult.fromCache
  /\ req[r].fetchResult.html = html

HtmlFetchStep(r) ==
  /\ worker \in ProxyWorkers
  /\ req[r].pc = "htmlFetch"
  /\ req'[r].pc # "htmlFetch"

\* after the step, the result of r is the body of the origin's answer, not
\* marked as served from cache
NewBodyAfter(r) ==
  /\ req'[r].fetchResult # Thrown
  /\ req'[r].fetchResult.html = req'[r].fetchResult.response.body
  /\ ~req'[r].fetchResult.fromCache

\* after the step, the stored entry holds the body and validators of the answer
StoredAfter(r) ==
  /\ HtmlKeyOf(r) \in DOMAIN htmlKV'
  /\ htmlKV'[HtmlKeyOf(r)].html = req'[r].fetchResult.response.body
  /\ htmlKV'[HtmlKeyOf(r)].validation =
       [etag |-> req'[r].fetchResult.response.etag,
        lastModified |-> req'[r].fetchResult.response.lastModified]

\* C4 (as claimed): when the origin answers the document fetch with 200, the
\* result carries the new body, not marked as served from cache, and after
\* the request the stored entry holds the new body and the validators of
\* that response.
C4_Ok_NewBody_Stored ==
  [][\A r \in Reqs :
       (HtmlFetchStep(r) /\ req'[r].origin = "200") =>
         NewBodyAfter(r) /\ StoredAfter(r)]_vars

\* C4 (amended): when the origin answers the document fetch with 200, the
\* result carries the new body, not marked as served from cache; the stored
\* entry holds the new body and the validators of that response afterwards
\* if the HTML_CACHE binding is there and the put did not throw, and is left
\* as it was otherwise.
C4_Ok_NewBody_StoredIfPutWorks ==
  [][\A r \in Reqs :
       (HtmlFetchStep(r) /\ req'[r].origin = "200") =>
         /\ NewBodyAfter(r)
         /\ IF env.HTML_CACHE /\ ~req'[r].putThrew
              THEN StoredAfter(r)
              ELSE htmlKV' = htmlKV]_vars

\* a 200 with a new body has replaced the entry that was stored before
C4_Witness ==
  \E r \in Reqs :
    /\ HtmlCallDone(r)
    /\ req[r].origin = "200"
    /\ req[r].htmlStored # Null
    /\ req[r].fetchResult.html # req[r].htmlStored.html
    /\ HtmlKeyOf(r) \in DOMAIN htmlKV
    /\ htmlKV[HtmlKeyOf(r)].html = req[r].fetchResult.html
    /\ htmlKV[HtmlKeyOf(r)].validation.lastModified = "m2"

\* C5: a second identical request within both TTLs, both caches filled and
\* the origin unchanged (it answers the conditional fetch with 304, and the
\* segments are stored and read), is served via the 304 revalidation of the
\* cached document, with segments from the segment cache and no
\* classification call.
C5_Repeat_Revalidated_SegmentsCached_NoCall ==
  \A r \in Reqs :
    (/\ worker \in ProxyWorkers
     /\ req[r].pc = "done"
     /\ req[r].origin = "304"
     /\ req[r].segStored
     /\ ~req[r].segThrew) =>
      /\ req[r].docVia = "cache-module"
      /\ req[r].segSource = "cache"
      /\ req[r].apiCalls = 0

\* C9: a 304 revalidation does not reset the entry's clock: a stored document
\* entry changes only by the put after a 200 answer, and getCachedHtml
\* returns nothing once now - timestamp exceeds the TTL.
C9_Revalidation_KeepsClock ==
  [][/\ \A k \in DOMAIN htmlKV \cap DOMAIN htmlKV' :
          htmlKV'[k] # htmlKV[k] =>
            \E r \in Reqs : /\ HtmlFetchStep(r)
                            /\ req'[r].origin = "200"
                            /\ k = HtmlKeyOf(r)
     /\ \A r \in Reqs :
          (/\ HtmlGetStep(r)
           /\ HtmlKeyOf(r) \in DOMAIN htmlKV
           /\ now - htmlKV[HtmlKeyOf(r)].timestamp > HTML_CACHE_TTL)
          => req'[r].cachedData = Null]_vars

\* after a 304 revalidation the entry has its original timestamp and has
\* grown older than the TTL
C9_Witness ==
  \E r \in Reqs :
    /\ worker \in ProxyWorkers
    /\ req[r].origin = "304"
    /\ req[r].htmlStored # Null
    /\ HtmlKeyOf(r) \in DOMAIN htmlKV
    /\ htmlKV[HtmlKeyOf(r)] = req[r].htmlStored
    /\ HtmlExpired(htmlKV[HtmlKeyOf(r)], now)

(***************************************************************************)
(* C11: what the classification client returns when the call fails.        *)
(***************************************************************************)
\* the request of slot r has called the classification API and the call
\* failed (deadline, transport error, unparsable body, error answer)
ApiCallFailed(r) ==
  /\ req[r].segSource = "api"
  /\ req[r].apiOutcome.kind # "ok"

FailureValueOf(w) ==
  CASE w = "part_007" -> Null
    [] w = "part_005" -> EmptySegments
    [] OTHER -> [segments |-> <<>>]

HasEmptyGlobalBlock(w, body) ==
  IF w \in FingerprintWorkers
    THEN \E i \in DOMAIN body : body[i] = Script(EmptySegments, Undefined)
    ELSE body.scope3_segments = <<>>

\* C12 (as claimed): when the classification call times out, the request
\* still ends with the origin's HTML, carrying an injected block whose
\* global segment list is empty.
C12_Timeout_HtmlWithEmptyGlobalBlock ==
  \A r \in Reqs :
    (req[r].segSource = "api" /\ req[r].apiOutcome.kind = "timeout") =>
      /\ req[r].result.kind = "html"
      /\ req[r].result.status = req[r].response.status
      /\ HasEmptyGlobalBlock(worker, req[r].result.body)

(***************************************************************************)
(* The classification call under its deadline: setTimeout(abort), the      *)
(* awaited fetch, clearTimeout, then the awaited read of the body          *)
(* (callSegmentApi, getScope3SegmentsWithTimeout).                         *)
(***************************************************************************)
\* API_TIMEOUT, in clock ticks
API_TIMEOUT == 1

\* the timer of slot r is armed and its delay has run out
TimerDue(r) ==
  /\ req[r].timer = "armed"
  /\ now - req[r].apiStart >= API_TIMEOUT

\* setTimeout(() => controller.abort(), apiTimeout), then fetch(...) is sent
ApiSend(r) ==
  /\ req[r].pc = "idle"
  /\ req' = [req EXCEPT ![r].pc = "apiFetch", ![r].apiStart = now,
                        ![r].timer = "armed", ![r].apiCalls = 1]
  /\ UNCHANGED <<keyVars, worker, env, now, segCache, pending, htmlKV, segKV>>

\* await fetch(...) resolves with the response head before the timer fires;
\* clearTimeout(timeoutId) follows at once
ApiFetchResolves(r) ==
  /\ req[r].pc = "apiFetch"
  /\ ~TimerDue(r)
  /\ req' = [req EXCEPT ![r].pc = "apiBody", ![r].timer = "cleared"]
  /\ UNCHANGED <<keyVars, worker, env, now, segCache, pending, htmlKV, segKV>>

\* the client's value for a call that ended in the outcome of the given kind
ClientValue(w, kind, imps, values) ==
  IF w \in FingerprintWorkers
    THEN CallSegmentApiOf(w, ApiOutcome(kind, imps))
    ELSE [segments |-> getScope3SegmentsWithTimeout([kind |-> kind, values |-> values])]

\* await fetch(...) rejects with a transport error; the catch block returns
\* the no-segments value
ApiFetchRejects(r) ==
  /\ req[r].pc = "apiFetch"
  /\ ~TimerDue(r)
  /\ req' = [req EXCEPT ![r].pc = "done", ![r].segSource = "api",
                        ![r].apiOutcome = ApiOutcome("neterr", <<>>),
                        ![r].segments = ClientValue(worker, "neterr", <<>>, <<>>)]
  /\ UNCHANGED <<keyVars, worker, env, now, segCache, pending, htmlKV, segKV>>

\* the timer fires while fetch(...) is pending: controller.abort() rejects the
\* fetch with AbortError and the catch block returns the no-segments value
ApiAbort(r) ==
  /\ req[r].pc = "apiFetch"
  /\ TimerDue(r)
  /\ req' = [req EXCEPT ![r].pc = "done", ![r].segSource = "api",
                        ![r].timer = "fired",
                        ![r].apiOutcome = ApiOutcome("timeout", <<>>),
                        ![r].segments = ClientValue(worker, "timeout", <<>>, <<>>)]
  /\ UNCHANGED <<keyVars, worker, env, now, segCache, pending, htmlKV, segKV>>

\* await response.text() / response.json() delivers the whole body, which is
\* then parsed
ApiBodyRead(r, imps) ==
  /\ req[r].pc = "apiBody"
  /\ req' = [req EXCEPT ![r].pc = "done", ![r].segSource = "api",
                        ![r].apiOutcome = ApiOutcome("ok", imps),
                        ![r].segments =
                           ClientValue(worker, "ok", imps,
                                       IF imps = <<>> THEN <<>> ELSE imps[1].segments)]
  /\ UNCHANGED <<keyVars, worker, env, now, segCache, pending, htmlKV, segKV>>

\* time passes; a timer that is due fires before the clock moves on
DeadlineTick ==
  /\ now < MaxTime
  /\ \A r \in Reqs : req[r].pc = "apiFetch" => ~TimerDue(r)
  /\ now' = now + 1
  /\ UNCHANGED <<keyVars, worker, env, segCache, pending, htmlKV, segKV, req>>

CallStep(r) ==
  \/ ApiSend(r)
  \/ ApiFetchResolves(r)
  \/ ApiFetchRejects(r)
  \/ ApiAbort(r)
  \/ \E imps \in ApiImps : ApiBodyRead(r, imps)
  \/ Finish(r)

NextDeadline == (\E r \in Reqs : CallStep(r)) \/ DeadlineTick

SpecDeadline == Init /\ [][NextDeadline]_vars

\* C13 (as claimed): the orchestrator never waits on the classification call
\* for longer than the classification deadline, the time to obtain the full
\* response body included.
C13_Wait_WithinDeadline ==
  \A r \in Reqs :
    req[r].pc \in {"apiFetch", "apiBody"} => now - req[r].apiStart <= API_TIMEOUT

(***************************************************************************)
(* C14: every request ends with a response.                                *)
(***************************************************************************)
\* C14 (as claimed): every request ends by returning a response to the
\* client: the rewritten document, the upstream response unmodified, or the
\* error page; the resource and bot pass-through paths included.
C14_EveryRequest_EndsWithResponse ==
  \A r \in Reqs :
    req[r].pc = "done" => req[r].result.kind \in {"html", "upstream", "error"}

(***************************************************************************)
(* C15: when the error page is generated.                                  *)
(***************************************************************************)
\* C15 (as claimed): the error page is generated only when the origin fetch
\* failed and no document-cache fallback was available; a failure of
\* classification, of building the request from the inbound headers and
\* cookies, of response parsing, or of either cache never causes it.
C15_ErrorPage_OnlyOriginFailureWithoutFallback ==
  \A r \in Reqs :
    (req[r].pc = "done" /\ req[r].result.kind = "error") =>
      IF worker \in FingerprintWorkers
        THEN req[r].origin = "neterr"
        ELSE req[r].direct = "neterr" /\ req[r].cachedData = Null

(***************************************************************************)
(* C16: the document is fetched before the segments are looked up.         *)
(***************************************************************************)
\* the request of slot r is consulting or has consulted the segment cache,
\* or is making or has made the classification call
SegmentPhase(r) ==
  \/ req[r].pc \in {"segGet", "callApi", "kvSegGet", "kvCallApi"}
  \/ req[r].segSource # "none"
  \/ req[r].apiCalls > 0

\* C16: within one request the fetch or revalidation of the document has
\* completed, so that the validators of the current response are known,
\* before the segment cache is consulted and before any classification call:
\* in the segment phase the response is there and the fingerprint key is the
\* one built from that response's validators.
C16_Document_BeforeSegments ==
  \A r \in Reqs :
    SegmentPhase(r) =>
      /\ req[r].response # Null
      /\ worker \in FingerprintWorkers =>
           req[r].cacheKey =
             CacheKeyOf(worker,
               BuildRequestOf(worker, req[r].input.url, req[r].response.etag,
                              req[r].response.lastModified, req[r].input.request))

\* a classification call was made for a document whose entity tag is known
C16_Witness ==
  \E r \in Reqs :
    /\ req[r].apiCalls = 1
    /\ req[r].segSource = "api"
    /\ req[r].response # Null
    /\ req[r].response.etag = "e1"

(***************************************************************************)
(* C17: when the cache writes are issued.                                  *)
(***************************************************************************)
\* the step puts an entry into the store kv (an expiry only removes one)
PutInto(kv, kvAfter) ==
  \E k \in DOMAIN kvAfter : k \notin DOMAIN kv \/ kvAfter[k] # kv[k]

\* the step writes to the document cache or to a segment cache, or hands a
\* segment-cache put to ctx.waitUntil
WriteIssued ==
  \/ PutInto(htmlKV, htmlKV')
  \/ PutInto(segKV, segKV')
  \/ pending' \ pending # {}

\* C17 (as claimed): the writes to the document cache and to the segment
\* cache are deferred: a write is issued only after the response body has
\* been finalized, so that returning the response never waits for one.
C17_CacheWrites_AfterBodyFinalized ==
  [][ WriteIssued =>
        \E r \in Reqs : req[r].pc = "done" /\ req[r].result # Null ]_vars

(***************************************************************************)
(* C18: an upstream answer whose content type is not HTML.                 *)
(***************************************************************************)
\* C18 (as claimed): when the origin's answer has a non-HTML content type,
\* the proxy handler passes it through with the body unchanged, with no
\* document-cache read or write, no segment-cache read or write and no
\* classification call.
C18_NonHtml_PassedThrough_NoCacheWork ==
  \A r \in Reqs :
    (/\ worker \in ProxyWorkers
     /\ req[r].pc = "done"
     /\ req[r].response # Null
     /\ req[r].response.contentType # "text/html") =>
      /\ req[r].result = Result("upstream", req[r].response.status, req[r].response.body)
      /\ req[r].docVia # "cache-module"
      /\ generateHtmlCacheKey(req[r].input.url) \notin DOMAIN htmlKV
      /\ req[r].segSource = "none"
      /\ req[r].apiCalls = 0

(***************************************************************************)
(* C19: requests with a method other than GET.                             *)
(***************************************************************************)
\* C19 (as claimed): a request whose method is not GET bypasses the whole
\* pipeline: it is forwarded upstream and the answer is returned as it is,
\* with no segment-cache access, no classification call and no injection.
C19_NonGet_BypassesPipeline ==
  \A r \in Reqs :
    (req[r].pc # "idle" /\ req[r].input.method # "GET") =>
      /\ req[r].pc \notin {"segGet", "callApi", "htmlGet", "htmlFetch",
                           "kvSegGet", "kvCallApi"}
      /\ req[r].segSource = "none"
      /\ req[r].apiCalls = 0
      /\ req[r].pc = "done" => req[r].result.kind # "html"

(***************************************************************************)
(* C20: requests for paths with a resource-like extension.                 *)
(***************************************************************************)
\* the request of slot r is for a path with a resource-like extension
ResourcePath(r) ==
  /\ req[r].pc # "idle"
  /\ PathExtension(req[r].input.url.pathname) \in ResourceExtensions

\* no segment-cache lookup, no classification call and no rewritten document
NoSegmentWork(r) ==
  /\ req[r].pc \notin {"segGet", "callApi", "kvSegGet", "kvCallApi"}
  /\ req[r].segSource = "none"
  /\ req[r].apiCalls = 0
  /\ req[r].pc = "done" => req[r].result.kind # "html"

\* C20 (as claimed): a request for a path with a resource-like extension is
\* classified as non-document on entry: it is served upstream unmodified
\* with no document-cache lookup, no segment-cache lookup, no classification
\* call and no injection.
C20_ResourcePath_NoPipeline ==
  \A r \in Reqs :
    ResourcePath(r) =>
      /\ req[r].pc \notin {"htmlGet", "htmlFetch"}
      /\ req[r].docVia # "cache-module"
      /\ NoSegmentWork(r)

\* C20 (what holds of it): in the fingerprint handler a request for a path with a
\* resource-like extension is passed upstream on entry, before any cache
\* work, and the answer is returned without a block; in the proxy handler
\* such a request is passed through without segment lookup, classification
\* or injection when the answer's content type is not HTML.
C20_ResourcePath_PassedThrough ==
  \A r \in Reqs :
    ResourcePath(r) =>
      IF worker \in FingerprintWorkers
        THEN /\ req[r].pc \in {"passthrough", "done"}
             /\ req[r].cacheKey = Null
             /\ NoSegmentWork(r)
             /\ (req[r].pc = "done" /\ req[r].result.kind = "upstream") =>
                  \A i \in DOMAIN req[r].result.body :
                    req[r].result.body[i].tag # "script"
        ELSE (/\ req[r].pc = "done"
              /\ req[r].response # Null
              /\ req[r].response.contentType # "text/html") =>
               /\ req[r].result =
                    Result("upstream", req[r].response.status, req[r].response.body)
               /\ NoSegmentWork(r)

\* the stylesheet was served upstream unmodified by the fingerprint handler,
\* and passed through by the proxy handler
C20_Witness ==
  \E r \in Reqs :
    /\ ResourcePath(r)
    /\ req[r].pc = "done"
    /\ req[r].result = Result("upstream", 200, <<Tag("css")>>)
    /\ worker = "part_007"

(***************************************************************************)
(* The document rewrite as a function of the document: insertScope3Segments *)
(* (part_007) and injectSegmentsIntoPage (index.js), each applied once and  *)
(* then again to its own output.                                            *)
(***************************************************************************)
\* a tag written with attributes, e.g. <head lang="en">
TagAttrs(name) == [tag |-> name, attrs |-> TRUE]

\* an element with one URL-bearing attribute; a srcset lists several URLs
Element(attr, urls) == [tag |-> "img", attr |-> attr, urls |-> urls]

MaxUrls == 3

ProtocolRelative == "//cdn.example/a"
UrlStrings ==
  {ProtocolRelative, "https://cdn.example/a", "#top", "javascript:void(0)", "data:image/png"}

UrlLists == UNION {[1..n -> UrlStrings] : n \in 1..MaxUrls}

Elements ==
  {Element("href", <<u>>) : u \in UrlStrings}
  \cup {Element("srcset", urls) : urls \in UrlLists}

\* the documents: with <head> and </head>, with <head lang=...>, with only
\* <html>, with only the doctype, with none of them
RewriteDocs ==
  { <<Tag("doctype"), Tag("html"), Tag("head"), Tag("title"), Tag("/head"), Tag("body")>>,
    <<Tag("html"), TagAttrs("head"), Tag("title"), Tag("/head"), Tag("body")>>,
    <<Tag("html"), Tag("body")>>,
    <<Tag("doctype"), Tag("body")>>,
    <<Tag("body")>> }

RewriteSegments == {Null, EmptySegments, ("1" :> <<"seg_a">>) @@ EmptySegments}

RewriteInputs ==
  [html : {doc \o <<e>> : doc \in RewriteDocs, e \in Elements},
   segments : RewriteSegments]

\* `$1${protocol}//`: the protocol of the target URL is put before the //
RewriteUrl(u) == IF u = ProtocolRelative THEN "https://cdn.example/a" ELSE u

\* the last index from 2 on whose URL is protocol-relative, 0 if none: where
\* /(\ssrcset=["'][^"']*),\s*\/\//gi matches, [^"']* being greedy
RECURSIVE LastProtocolRelative(_, _)
LastProtocolRelative(urls, i) ==
  IF i < 2 THEN 0
  ELSE IF urls[i] = ProtocolRelative THEN i
  ELSE LastProtocolRelative(urls, i - 1)

\* the replace() calls on one element: rule 1 rewrites a value that starts
\* with //, rule 6 one further srcset candidate
rewriteElement(e) ==
  LET first == [e.urls EXCEPT ![1] = RewriteUrl(@)]
      j == IF e.attr = "srcset" THEN LastProtocolRelative(first, Len(first)) ELSE 0
  IN  [e EXCEPT !.urls = IF j > 0 THEN [first EXCEPT ![j] = RewriteUrl(@)] ELSE first]

rewriteUrls(html) ==
  [i \in DOMAIN html |->
     IF "urls" \in DOMAIN html[i] THEN rewriteElement(html[i]) ELSE html[i]]

\* html.indexOf(token) + 1, 0 when the token is not there
RECURSIVE IndexOf(_, _, _)
IndexOf(html, token, i) ==
  IF i > Len(html) THEN 0
  ELSE IF html[i] = token THEN i
  ELSE IndexOf(html, token, i + 1)

InsertAfter(html, i, tokens) == SubSeq(html, 1, i) \o tokens \o SubSeq(html, i + 1, Len(html))

\* the chain of includes() / replace() that places the scripts: before
\* </head>, else after <head>, else in a new head after <html>, else after
\* <!DOCTYPE html>, else in front
injectScripts(html, scripts) ==
  LET inHead == <<Tag("head")>> \o scripts \o <<Tag("/head")>>
  IN  IF IndexOf(html, Tag("/head"), 1) > 0
        THEN InsertAfter(html, IndexOf(html, Tag("/head"), 1) - 1, scripts)
      ELSE IF IndexOf(html, Tag("head"), 1) > 0
        THEN InsertAfter(html, IndexOf(html, Tag("head"), 1), scripts)
      ELSE IF IndexOf(html, Tag("html"), 1) > 0
        THEN InsertAfter(html, IndexOf(html, Tag("html"), 1), inHead)
      ELSE IF IndexOf(html, Tag("doctype"), 1) > 0
        THEN InsertAfter(html, IndexOf(html, Tag("doctype"), 1), inHead)
      ELSE inHead \o html

urlFixerScript == [tag |-> "script", fixer |-> TRUE]

\* window.scope3_segments = JSON.stringify(safeSegments), an array
segmentScript(segments) ==
  [tag |-> "script",
   scope3_segments |-> IF segments = Null THEN <<>> ELSE segments["global"]]

\* injectSegmentsIntoPage with a provided URL: the rewritten markup
modifiedHtml(html, segments) ==
  injectScripts(rewriteUrls(html), <<urlFixerScript, segmentScript(segments)>>)

InitRewrite ==
  /\ keyIn \in RewriteInputs
  /\ keyOut = Null
  /\ worker = "part_007"
  /\ env = Env(TRUE, TRUE, TRUE)
  /\ now = 0
  /\ segCache = EmptyMap
  /\ pending = {}
  /\ htmlKV = EmptyMap
  /\ segKV = EmptyMap
  /\ req = [r \in Reqs |-> IdleReq]

\* each rewrite applied to the document, and to its own output
ApplyRewrite ==
  /\ keyOut = Null
  /\ LET h == keyIn.html
         s == keyIn.segments
     IN  keyOut' =
           [insertScope3Segments |->
              <<insertScope3Segments(h, Undefined, s),
                insertScope3Segments(insertScope3Segments(h, Undefined, s), Undefined, s)>>,
            modifiedHtml |->
              <<modifiedHtml(h, s), modifiedHtml(modifiedHtml(h, s), s)>>,
            rewriteUrls |-> <<rewriteUrls(h), rewriteUrls(rewriteUrls(h))>>]
  /\ UNCHANGED <<keyIn, mainVars>>

NextRewrite == ApplyRewrite

SpecRewrite == InitRewrite /\ [][NextRewrite]_vars

\* C21 (as claimed): rewriting is idempotent: rewriting the output of a
\* rewrite again, with the same segments, gives the same document; the
\* second pass adds no second injected block.
C21_Rewrite_Idempotent ==
  keyOut # Null =>
    /\ keyOut.insertScope3Segments[2] = keyOut.insertScope3Segments[1]
    /\ keyOut.modifiedHtml[2] = keyOut.modifiedHtml[1]

\* the first index whose token is the given tag, with or without
\* attributes; 0 if there is none
RECURSIVE TagPosition(_, _, _)
TagPosition(html, name, i) ==
  IF i > Len(html) THEN 0
  ELSE IF html[i].tag = name THEN i
  ELSE TagPosition(html, name, i + 1)

\* the insertion point by the stated priority: after the opening head tag,
\* else after <html>, else after the doctype, else the front
PriorityPoint(html) ==
  IF TagPosition(html, "head", 1) > 0 THEN TagPosition(html, "head", 1)
  ELSE IF TagPosition(html, "html", 1) > 0 THEN TagPosition(html, "html", 1)
  ELSE IF TagPosition(html, "doctype", 1) > 0 THEN TagPosition(html, "doctype", 1)
  ELSE 0

\* out is html with the scripts put in at the priority point, and nowhere
\* else (bare, or within a head element made for them)
InsertedAtPriorityPoint(html, out, scripts) ==
  \/ out = InsertAfter(html, PriorityPoint(html), scripts)
  \/ out = InsertAfter(html, PriorityPoint(html),
                       <<Tag("head")>> \o scripts \o <<Tag("/head")>>)

\* C22 (as claimed): whether the document has a <head ...> tag (with or
\* without attributes), only <html>, only the doctype, or none of them, the
\* rewrite inserts the payload at exactly one point, chosen by the priority
\* after the opening head tag, else after <html>, else after the doctype,
\* else in front.
C22_Payload_AtPriorityPoint ==
  keyOut # Null =>
    /\ InsertedAtPriorityPoint(keyIn.html, keyOut.insertScope3Segments[1],
         <<Script(IF keyIn.segments = Null THEN EmptySegments ELSE keyIn.segments,
                  Undefined)>>)
    /\ InsertedAtPriorityPoint(rewriteUrls(keyIn.html), keyOut.modifiedHtml[1],
         <<urlFixerScript, segmentScript(keyIn.segments)>>)

\* the tokens of a document that are injected segment blocks
SegmentBlocks(html) ==
  {html[i] : i \in {j \in DOMAIN html : html[j].tag = "script" /\ "fixer" \notin DOMAIN html[j]}}

\* C23 (as claimed): for every classification outcome (no result, a result
\* with only empty slots, a result with segments) the payload assigns the
\* global a serialized Segments mapping that has the key global.
C23_Payload_MappingWithGlobal ==
  keyOut # Null =>
    \A b \in SegmentBlocks(keyOut.insertScope3Segments[1])
             \cup SegmentBlocks(keyOut.modifiedHtml[1]) :
      "segments" \in DOMAIN b /\ "global" \in DOMAIN b.segments

\* C23 (amended): for every classification outcome the payload of
\* insertScope3Segments assigns window.scope3.segments a mapping that has
\* the key global ({global: []} when there is no result), and the payload of
\* injectSegmentsIntoPage assigns window.scope3_segments an array (empty
\* when there is no result); neither payload leaves its global out.
C23_Payload_GlobalOrArray ==
  keyOut # Null =>
    /\ \A b \in SegmentBlocks(keyOut.insertScope3Segments[1]) :
         /\ "global" \in DOMAIN b.segments
         /\ keyIn.segments = Null => b.segments = EmptySegments
    /\ TagPosition(keyIn.html, "head", 1) > 0 =>
         SegmentBlocks(keyOut.insertScope3Segments[1]) # {}
    /\ \E b \in SegmentBlocks(keyOut.modifiedHtml[1]) :
         b.scope3_segments =
           IF keyIn.segments = Null THEN <<>> ELSE keyIn.segments["global"]

\* a document with a head tag was rewritten without a classification result
C23_Witness ==
  /\ keyOut # Null
  /\ keyIn.segments = Null
  /\ Script(EmptySegments, Undefined) \in SegmentBlocks(keyOut.insertScope3Segments[1])
  /\ [tag |-> "script", scope3_segments |-> <<>>] \in SegmentBlocks(keyOut.modifiedHtml[1])

\* C24 (as claimed): URL rewriting changes only protocol-relative
\* references, which get the base scheme in front; every other reference
\* (absolute, fragment-only, javascript:, data:, already rewritten) is left
\* as it is, and a second pass over the output changes nothing.
C24_UrlRewrite_OnlyProtocolRelative_SecondPassNoop ==
  keyOut # Null =>
    /\ \A i \in DOMAIN keyIn.html :
         "urls" \in DOMAIN keyIn.html[i] =>
           \A j \in DOMAIN keyIn.html[i].urls :
             keyIn.html[i].urls[j] # ProtocolRelative =>
               keyOut.rewriteUrls[1][i].urls[j] = keyIn.html[i].urls[j]
    /\ keyOut.rewriteUrls[2] = keyOut.rewriteUrls[1]

ParsedUrl(protocol, hostname, port, pathname, search) ==
  [href |-> <<protocol, hostname, port, pathname, search>>,
   protocol |-> protocol, hostname |-> hostname, port |-> port,
   pathname |-> pathname, search |-> search]

DocKeyUrls ==
  {ParsedUrl(p, h, port, path, q) :
     p \in {"http:", "https:"}, h \in {"example.com", "other.example"},
     port \in {"", "8080"}, path \in {"/", "/news"}, q \in {"", "?x=1"}}

InitDocKey ==
  /\ keyIn \in DocKeyUrls \X DocKeyUrls
  /\ keyOut = Null
  /\ worker = "part_006"
  /\ env = Env(TRUE, TRUE, TRUE)
  /\ now = 0
  /\ segCache = EmptyMap
  /\ pending = {}
  /\ htmlKV = EmptyMap
  /\ segKV = EmptyMap
  /\ req = [r \in Reqs |-> IdleReq]

ComputeDocKeys ==
  /\ keyOut = Null
  /\ keyOut' = [key |-> <<generateHtmlCacheKey(keyIn[1]), generateHtmlCacheKey(keyIn[2])>>]
  /\ UNCHANGED <<keyIn, mainVars>>

NextDocKey == ComputeDocKeys

SpecDocKey == InitDocKey /\ [][NextDocKey]_vars

\* C26 (as claimed): the document cache is keyed by scheme + host + path:
\* URLs that differ only in the query string have the same key, URLs that
\* differ in scheme, host or path have different keys.
C26_DocKey_SchemeHostPath ==
  keyOut # Null =>
    (keyOut.key[1] = keyOut.key[2]) <=>
      /\ keyIn[1].protocol = keyIn[2].protocol
      /\ keyIn[1].hostname = keyIn[2].hostname
      /\ keyIn[1].port = keyIn[2].port
      /\ keyIn[1].pathname = keyIn[2].pathname

\* C26 (amended): the document cache is keyed by host name + path: URLs
\* that differ only in query string, scheme or port have the same key, URLs
\* that differ in host name or path have different keys.
C26_DocKey_HostnamePath ==
  keyOut # Null =>
    (keyOut.key[1] = keyOut.key[2]) <=>
      /\ keyIn[1].hostname = keyIn[2].hostname
      /\ keyIn[1].pathname = keyIn[2].pathname

\* the http and the https URL of one page, with different queries, got the
\* same key
C26_Witness ==
  /\ keyOut # Null
  /\ keyIn[1].protocol = "http:" /\ keyIn[2].protocol = "https:"
  /\ keyIn[1].search # keyIn[2].search
  /\ keyIn[1].hostname = keyIn[2].hostname /\ keyIn[1].pathname = keyIn[2].pathname
  /\ keyOut.key[1] = keyOut.key[2]

(***************************************************************************)
(* getCacheKey applied to one API request whose members are enumerated in  *)
(* two orders.  JSON.parse(JSON.stringify(apiRequest)) keeps the order of  *)
(* the members of its argument, and JSON.stringify(requestCopy) writes     *)
(* them in that order; user is deleted and user_ids is added last.         *)
(***************************************************************************)
MemberNames == {"site", "imp", "device", "user"}

\* the order buildOpenRtbRequest's object literal gives the members
BuilderOrder == <<"site", "imp", "device", "user">>

MemberOrders ==
  {o \in [1..4 -> MemberNames] : \A i, j \in 1..4 : i # j => o[i] # o[j]}

\* one member of requestCopy after normalisation, serialised
MemberProps(apiRequest, name) ==
  LET dev == apiRequest.device
      hasUa == dev.ua # ""
      result == UAParser(dev.ua)
  IN  CASE name = "site" ->
             Prop("site.domain", apiRequest.site.domain)
             \o Prop("site.page", apiRequest.site.page)
             \o Prop("site.ext.scope3.etag", apiRequest.site.etag)
             \o Prop("site.ext.scope3.last_modified", apiRequest.site.last_modified)
        [] name = "imp" -> Prop("imp.id", "1")
        [] name = "device" ->
             Prop("device.devicetype", dev.devicetype)
             \o Prop("device.geo.country", dev.country)
             \o (IF hasUa THEN <<>> ELSE Prop("device.ua", dev.ua))
             \o Prop("device.os", dev.os)
             \o Prop("device.make", dev.make)
             \o Prop("device.model", dev.model)
             \o (IF hasUa
                   THEN Prop("device.ua_normalized.browser", result.browser)
                        \o Prop("device.ua_normalized.os", result.os)
                        \o Prop("device.ua_normalized.device", dev.devicetype)
                   ELSE <<>>)
        [] OTHER -> <<>>

RECURSIVE MembersInOrder(_, _, _)
MembersInOrder(apiRequest, order, i) ==
  IF i > Len(order) THEN <<>>
  ELSE MemberProps(apiRequest, order[i]) \o MembersInOrder(apiRequest, order, i + 1)

\* requestStr for an argument whose members were inserted in the given order
requestStrInOrder(apiRequest, order) ==
  MembersInOrder(apiRequest, order, 1) \o UserIdProps(UserIds(apiRequest.eids, 1), 1)

getCacheKeyInOrder(apiRequest, order) ==
  [hostname |-> ApiHostname, hash |-> SHA256Hex16(requestStrInOrder(apiRequest, order))]

KeyOrderRequests ==
  {in \in KeyInputs : in.url = UrlHome /\ in.lastModified = NoHeader /\ in.etag # "e2"}

KeyOrderInputs == [in : KeyOrderRequests, order : MemberOrders \X MemberOrders]

InitKeyOrder ==
  /\ keyIn \in KeyOrderInputs
  /\ keyOut = Null
  /\ worker = "part_007"
  /\ env = Env(TRUE, TRUE, TRUE)
  /\ now = 0
  /\ segCache = EmptyMap
  /\ pending = {}
  /\ htmlKV = EmptyMap
  /\ segKV = EmptyMap
  /\ req = [r \in Reqs |-> IdleReq]

ComputeOrderedKeys ==
  /\ keyOut = Null
  /\ LET apiRequest == ApiRequestOf(keyIn.in)
     IN  keyOut' = [built |-> getCacheKey(apiRequest),
                    key |-> <<getCacheKeyInOrder(apiRequest, keyIn.order[1]),
                              getCacheKeyInOrder(apiRequest, keyIn.order[2])>>]
  /\ UNCHANGED <<keyIn, mainVars>>

NextKeyOrder == ComputeOrderedKeys

SpecKeyOrder == InitKeyOrder /\ [][NextKeyOrder]_vars

C27_BuilderOrder_SameKey ==
  keyOut # Null =>
    /\ keyIn.order[1] = BuilderOrder => keyOut.key[1] = keyOut.built
    /\ keyIn.order[2] = BuilderOrder => keyOut.key[2] = keyOut.built

\* the members in the builder's order and with device before site
C27_Witness ==
  /\ keyOut # Null
  /\ keyIn.order[1] = BuilderOrder
  /\ keyIn.order[2] = <<"device", "site", "imp", "user">>
  /\ keyOut.key[1] # keyOut.key[2]

(***************************************************************************)
(* C28: cache operations that fail.                                        *)
(***************************************************************************)
\* a cache operation of the request failed or found no binding
CacheOpFailed(q) == q.segThrew \/ q.htmlThrew \/ q.putThrew \/ ~env.HTML_CACHE

\* C28 (as claimed): a failed cache operation never changes the response the
\* request would otherwise have produced into an error: when the read of a
\* stored document that is within its TTL fails, the request still does not
\* end in an error page or in an exception (with the entry read, a failing
\* origin fetch is answered from the cached body).
C28_FailedRead_NeverAnError ==
  \A r \in Reqs :
    LET q == req[r]
    IN  (/\ q.pc = "done"
         /\ q.htmlThrew
         /\ q.htmlStored # Null)
        => (~HtmlExpired(q.htmlStored, now)
              => q.result.kind \notin {"error", "exception"})

\* C28 (amended): a failed cache operation (missing binding, failed get,
\* failed put) is a miss for a read and a no-op for a write, and it never
\* makes the handler reject; a failed write leaves the response as it is; a
\* failed read gives the response a miss gives, which is the error page only
\* when a fetch of the origin rejected.
C28_CacheFailure_MissOrNoOp ==
  [][ \A r \in Reqs :
        LET q == req[r]
            p == req'[r]
        IN  /\ (q.pc = "htmlGet" /\ p.pc = "htmlFetch"
                  /\ (p.htmlThrew \/ ~env.HTML_CACHE))
               => p.cachedData = Null
            /\ (q.pc \in {"segGet", "kvSegGet"} /\ p.pc # q.pc /\ p.segThrew)
               => p.pc \in {"callApi", "kvCallApi"} /\ p.result = Null
            /\ (q.pc = "htmlFetch" /\ p.pc # q.pc
                  /\ (p.putThrew \/ ~env.HTML_CACHE))
               => /\ htmlKV' = htmlKV
                  /\ p.result # Null => p.result.kind = "upstream"
            /\ (q.pc = "kvCallApi" /\ p.pc = "done" /\ p.putThrew)
               => segKV' = segKV /\ p.result.kind = "html"
            /\ (\E w \in pending : w \notin pending') /\ segCache' = segCache
               => p = q
            /\ (q.pc # "done" /\ p.pc = "done" /\ CacheOpFailed(p))
               => /\ p.result.kind # "exception"
                  /\ p.result.kind = "error"
                       => p.origin = "neterr" \/ p.direct = "neterr" ]_vars

\* both reads and the segment-cache put failed, and the page was rewritten
C28_Witness ==
  \E r \in Reqs :
    /\ worker = "part_006"
    /\ req[r].pc = "done"
    /\ req[r].htmlThrew /\ req[r].segThrew /\ req[r].putThrew
    /\ req[r].result.kind = "html"

(***************************************************************************)
(* C29: a stored document without validators.                              *)
(***************************************************************************)
\* the entry the lookup returned has neither an entity tag nor a
\* modification date
NoValidators(cachedData) ==
  /\ cachedData # Null
  /\ cachedData.validation.etag = NoHeader
  /\ cachedData.validation.lastModified = NoHeader

\* C29 (as claimed): a stored document without validators is usable for
\* time-bounded caching: while it is within its TTL (the lookup returned
\* it), the request is served from the cached body and it is not replaced
\* by the answer to an unconditional fetch of the origin.
C29_NoValidators_ServedFromCache ==
  \A r \in Reqs :
    LET q == req[r]
    IN  (/\ q.pc = "kvSegGet"
         /\ q.docVia = "cache-module"
         /\ NoValidators(q.cachedData))
        => /\ q.fetchResult.fromCache
           /\ q.response.body = q.cachedData.html

(***************************************************************************)
(* C30: the lookup of the document cache and the fetch that follows it.    *)
(* Every await of getHtmlWithCache settles (the KV read resolves or        *)
(* rejects, and so does fetch), so a step of the handler that is enabled   *)
(* is taken in the end.                                                    *)
(***************************************************************************)
\* requests that follow one another within the TTL of what they store
NextProxy ==
  \/ ProxyStep("r1", ProxyInputs, OriginDocs)
  \/ Finish("r1")

InitProxy == Init /\ worker = "part_006"

SpecProxyFair ==
  InitProxy /\ [][NextProxy]_vars /\ WF_vars(ProxyStep("r1", ProxyInputs, OriginDocs))

\* the returned entry has an entity tag or a modification date
HasValidator(cachedData) ==
  /\ cachedData # Null
  /\ cachedData.validation.etag # NoHeader
       \/ cachedData.validation.lastModified # NoHeader

\* C30: the lookup of the document cache is always followed by the fetch of
\* the origin, with or without a returned entry, and the fetch carries
\* conditional headers if and only if the lookup returned an entry with at
\* least one validator.
C30_Lookup_ThenFetch_ConditionalIffValidator ==
  /\ [][ \A r \in Reqs :
           LET q == req[r]
               p == req'[r]
           IN  /\ (q.pc = "htmlGet" /\ p # q)
                  => p.pc = "htmlFetch" /\ p.origin = "none"
               /\ (q.pc = "htmlFetch" /\ p # q)
                  => /\ p.origin # "none"
                     /\ (p.conditional.ifNoneMatch # NoHeader
                           \/ p.conditional.ifModifiedSince # NoHeader)
                        <=> HasValidator(q.cachedData)
                     /\ q.cachedData = Null
                          => p.conditional = [ifNoneMatch |-> NoHeader,
                                              ifModifiedSince |-> NoHeader] ]_vars
  /\ \A r \in Reqs : (req[r].pc = "htmlGet") ~> (req[r].origin # "none")

\* a fetch without conditional headers although the lookup returned an entry
\* (one without validators), after a fetch with conditional headers was seen
\* to be answered 304
C30_Witness ==
  \E r \in Reqs :
    /\ req[r].pc \in {"kvSegGet", "directFetch"}
    /\ req[r].cachedData # Null
    /\ ~HasValidator(req[r].cachedData)
    /\ req[r].conditional = [ifNoneMatch |-> NoHeader, ifModifiedSince |-> NoHeader]
    /\ req[r].origin = "200"

\* a fetch with If-Modified-Since only
C30_Witness_Conditional ==
  \E r \in Reqs :
    /\ req[r].cachedData # Null
    /\ req[r].conditional # Null
    /\ req[r].conditional.ifNoneMatch = NoHeader
    /\ req[r].conditional.ifModifiedSince # NoHeader
    /\ req[r].origin = "304"

(***************************************************************************)
(* Two requests for one page, in the two slots, in any interleaving, over  *)
(* caches that start empty.  A slot keeps its finished request, so that    *)
(* the two requests can be compared.                                       *)
(***************************************************************************)
PairInputs == {Inbound(UrlNews, PlainRequest("Chrome/100 (Windows)", NoHeader), FALSE)}

PairDocs == {DocV1, DocV2}

PairOriginOutcomes == {"ok", "neterr"}

PairApiOutcomes ==
  {ApiOutcome("timeout", <<>>), ApiOutcome("ok", <<>>),
   ApiOutcome("ok", <<Imp("1", TRUE, <<"seg_a", "seg_b">>)>>),
   ApiOutcome("ok", <<Imp("1", TRUE, <<"seg_c">>)>>)}

PairKeyValOutcomes ==
  {[kind |-> "timeout", values |-> <<>>], [kind |-> "ok", values |-> <<"seg_a", "seg_b">>]}

\* the steps of handleRequest in slot r
PairStep(r) ==
  \/ \E in \in PairInputs : StartRequest(r, in)
  \/ \E outcome \in PairOriginOutcomes, doc \in PairDocs : FetchOrigin(r, outcome, doc)
  \/ \E throws \in BOOLEAN : GetSegments(r, throws)
  \/ \E outcome \in PairApiOutcomes : CallApi(r, outcome)

\* the steps of handleProxyRequest in slot r
ProxyPairStep(r) ==
  \/ \E in \in PairInputs : ProxyStart(r, in)
  \/ HtmlGet(r, FALSE)
  \/ \E outcome \in PairOriginOutcomes, doc \in PairDocs : HtmlFetch(r, outcome, doc, FALSE)
  \/ \E outcome \in PairOriginOutcomes, doc \in PairDocs : DirectFetch(r, outcome, doc)
  \/ KvSegGet(r, FALSE)
  \/ \E outcome \in PairKeyValOutcomes : KvCallApi(r, outcome, FALSE)

InitPair == Init /\ worker \in {"part_007", "part_006"} /\ env.HTML_CACHE

NextPair ==
  \/ \E r \in Reqs : PairStep(r)
  \/ \E r \in Reqs : ProxyPairStep(r)
  \/ EnvStep

SpecPair == InitPair /\ [][NextPair]_vars

\* request s stored, or handed to waitUntil, an entry under its key
StoredByCall(s) == req[s].scheduled

\* C31: after a classification call for a key has errored, timed out or
\* returned only an empty global slot, the segment cache holds no entry for
\* the key unless another call stored one, and the other request that
\* computes the same key finds no entry and issues a classification call of
\* its own.
C31_FailedCall_NextRequestCallsAgain ==
  \A r \in Reqs : \A s \in Reqs \ {r} :
    (worker = "part_007" /\ CallFailedOrEmpty(r))
    => /\ ~StoredByCall(s)
          => /\ req[r].cacheKey \notin DOMAIN segCache
             /\ \A p \in pending : p.key # req[r].cacheKey
       /\ (req[s].cacheKey = req[r].cacheKey /\ req[s].pc \in {"callApi", "done"})
          => /\ req[s].segSource # "cache"
             /\ req[s].pc = "done" => req[s].apiCalls = 1

\* the call of r1 timed out; r2 has the same key and called the API itself
C31_Witness ==
  /\ worker = "part_007"
  /\ req["r1"].pc = "done" /\ req["r1"].apiOutcome # Null
  /\ req["r2"].pc = "done" /\ req["r2"].apiOutcome # Null
  /\ req["r1"].cacheKey = req["r2"].cacheKey
  /\ IF req["r1"].apiOutcome # Null /\ req["r2"].apiOutcome # Null
       THEN req["r1"].apiOutcome.kind = "timeout" /\ req["r2"].apiOutcome.kind = "ok"
       ELSE FALSE

(***************************************************************************)
(* C32: the validators of the document change between two requests.        *)
(***************************************************************************)
\* r stored the segments of its call, and s, a finished request for the same
\* URL, got a document with other validators
ValidatorsChanged(r, s) ==
  /\ req[r].scheduled
  /\ req[r].response # Null
  /\ req[s].pc = "done"
  /\ req[s].response # Null
  /\ req[s].input.url = req[r].input.url
  /\ \/ req[s].response.etag # req[r].response.etag
     \/ req[s].response.lastModified # req[r].response.lastModified

\* C32 (as claimed): when the validators of the origin document change
\* between two requests for one URL, the second request does not reuse the
\* segments cached under the old validators and issues a classification call
\* of its own, also while the old entry is within its TTL.
C32_ValidatorsChange_NewCall ==
  \A r \in Reqs : \A s \in Reqs \ {r} :
    (ValidatorsChanged(r, s) /\ req[s].result.kind = "html")
    => req[s].segSource = "api" /\ req[s].apiCalls = 1

\* C32 (what holds of it): the property holds of handleRequest, whose key is
\* made from the validators.
C32_ValidatorsChange_NewCall_Fingerprint ==
  worker \in FingerprintWorkers => C32_ValidatorsChange_NewCall

(***************************************************************************)
(* The first worker of part_008 (lines 1-248): handleRequest over the KV   *)
(* segment cache, with getSegmentsFromAPI as its classification client.    *)
(***************************************************************************)
\* `url:${url}`, then `,etag:${etag}` or else `,last:${lastModified}`
getCacheKey_part008(url, etag, lastModified) ==
  [prefix |-> "url:", href |-> url.href, etag |-> etag,
   last |-> IF etag # NoHeader THEN NoHeader ELSE lastModified]

\* getCachedSegments (KV): null without the binding, when the read throws,
\* when nothing is stored and when the entry is past the TTL
getCachedSegments_part008(cacheKey, e, kv, t, throws) ==
  IF ~e.SEGMENTS_CACHE \/ throws THEN Null
  ELSE IF cacheKey \notin DOMAIN kv THEN Null
  ELSE IF t - kv[cacheKey].timestamp > CACHE_TTL THEN Null
  ELSE [segments |-> kv[cacheKey].segments]

\* cacheSegments (KV): the store after the put
cacheSegments_part008(cacheKey, segments, e, kv, t, throws) ==
  IF ~e.SEGMENTS_CACHE \/ throws THEN kv
  ELSE [k \in DOMAIN kv \cup {cacheKey} |->
          IF k = cacheKey THEN [segments |-> segments, timestamp |-> t] ELSE kv[k]]

\* how the fetch of the API and response.json() end
ClientOutcomes ==
  {[kind |-> k, values |-> <<>>] : k \in {"neterr", "badjson"}}
  \cup {[kind |-> "ok", values |-> v] : v \in {<<>>, <<"seg_a", "seg_b">>}}

\* window.scope3.segments = JSON.stringify(segments || [])
insertScope3Segments_part008(html, baseUrl, segments) ==
  injectIntoHead(html, Script(segments, baseUrl))

ClientInputs ==
  { Inbound(url, PlainRequest("Chrome/100 (Windows)", NoHeader), bot) :
      url \in {UrlNews, UrlCss}, bot \in BOOLEAN }

ClientDocs == {DocV1, DocV2}

\* entry of handleRequest: resource paths and bots go to fetch(originRequest)
ClientStart(r, in) ==
  /\ worker = "part_008"
  /\ req[r].pc = "idle"
  /\ req' = [req EXCEPT ![r] =
       [IdleReq EXCEPT !.input = in,
                       !.pc = IF isResource(in.url.pathname) \/ in.bot
                                THEN "clientPassthrough" ELSE "clientFetch"]]
  /\ UNCHANGED <<keyVars, worker, env, now, segCache, pending, htmlKV, segKV>>

\* return fetch(originRequest)
ClientPassthrough(r, outcome, doc) ==
  /\ worker = "part_008"
  /\ req[r].pc = "clientPassthrough"
  /\ LET answer == OriginAnswer(req[r].input.url, doc, outcome, NoHeader, NoHeader)
     IN  req' = [req EXCEPT ![r].pc = "done",
                            ![r].result =
                               IF answer = Thrown THEN Result("exception", 0, <<>>)
                               ELSE Result("upstream", answer.status, answer.body)]
  /\ UNCHANGED <<keyVars, worker, env, now, segCache, pending, htmlKV, segKV>>

\* var response = await fetch(originRequest), outside any try block, and the
\* key made from its validators
ClientFetchOrigin(r, outcome, doc) ==
  /\ worker = "part_008"
  /\ req[r].pc = "clientFetch"
  /\ LET response == OriginAnswer(req[r].input.url, doc, outcome, NoHeader, NoHeader)
     IN  req' =
           IF response = Thrown
             THEN [req EXCEPT ![r].pc = "done", ![r].origin = OriginKind(response),
                              ![r].result = Result("exception", 0, <<>>)]
             ELSE [req EXCEPT ![r].pc = "clientSegGet",
                              ![r].origin = OriginKind(response),
                              ![r].response = response,
                              ![r].cacheKey =
                                 getCacheKey_part008(req[r].input.url, response.etag,
                                                     response.lastModified)]
  /\ UNCHANGED <<keyVars, worker, env, now, segCache, pending, htmlKV, segKV>>

\* let segments = await getCachedSegments(segmentsCacheKey, env); on a hit
\* the document is rewritten and returned
ClientSegGet(r, throws) ==
  /\ worker = "part_008"
  /\ req[r].pc = "clientSegGet"
  /\ throws => env.SEGMENTS_CACHE
  /\ LET segments == getCachedSegments_part008(req[r].cacheKey, env, segKV, now, throws)
     IN  IF segments = Null
           THEN req' = [req EXCEPT ![r].pc = "clientCall", ![r].segThrew = throws]
           ELSE req' = [req EXCEPT
                  ![r].pc = "done",
                  ![r].segments = segments,
                  ![r].segSource = "cache",
                  ![r].segThrew = throws,
                  ![r].result =
                     Result("html", req[r].response.status,
                            insertScope3Segments_part008(req[r].response.body, Undefined,
                                                         segments.segments))]
  /\ UNCHANGED <<keyVars, worker, env, now, segCache, pending, htmlKV, segKV>>

\* getSegmentsFromAPI, the classification client: when the fetch or
\* response.json() throws it returns []; otherwise it awaits cacheSegments
\* (a KV put) for whatever values it read, and then `return segments` names
\* a const that is out of scope, so that the call is rejected with a
\* ReferenceError
getSegmentsFromAPI(r, outcome, putThrows) ==
  /\ worker = "part_008"
  /\ req[r].pc = "clientCall"
  /\ putThrows => outcome.kind = "ok" /\ env.SEGMENTS_CACHE
  /\ IF outcome.kind = "ok"
       THEN /\ segKV' = cacheSegments_part008(req[r].cacheKey, outcome.values, env,
                                              segKV, now, putThrows)
            /\ req' = [req EXCEPT ![r].pc = "done",
                                  ![r].apiOutcome = outcome,
                                  ![r].apiCalls = 1,
                                  ![r].putThrew = putThrows,
                                  ![r].result = Result("exception", 0, <<>>)]
       ELSE /\ segKV' = segKV
            /\ req' = [req EXCEPT ![r].pc = "clientRewrite",
                                  ![r].apiOutcome = outcome,
                                  ![r].apiCalls = 1,
                                  ![r].segSource = "api",
                                  ![r].segments = [segments |-> <<>>]]
  /\ UNCHANGED <<keyVars, worker, env, now, segCache, pending, htmlKV>>

\* the rest of handleRequest: response.text(), insertScope3Segments and the
\* new Response
ClientRewrite(r) ==
  /\ worker = "part_008"
  /\ req[r].pc = "clientRewrite"
  /\ req' = [req EXCEPT
       ![r].pc = "done",
       ![r].headers = RewrittenHeaders(req[r].response, FALSE),
       ![r].result =
          Result("html", req[r].response.status,
                 insertScope3Segments_part008(req[r].response.body, Undefined,
                                              req[r].segments.segments))]
  /\ UNCHANGED <<keyVars, worker, env, now, segCache, pending, htmlKV, segKV>>

InitClient ==
  /\ keyIn = Null
  /\ keyOut = Null
  /\ worker = "part_008"
  /\ env \in {Env(TRUE, s, TRUE) : s \in BOOLEAN}
  /\ now = 0
  /\ segCache = EmptyMap
  /\ pending = {}
  /\ htmlKV = EmptyMap
  /\ segKV = EmptyMap
  /\ req = [r \in Reqs |-> IdleReq]

NextClient ==
  \/ \E in \in ClientInputs : ClientStart("r1", in)
  \/ \E outcome \in OriginOutcomes, doc \in ClientDocs : ClientPassthrough("r1", outcome, doc)
  \/ \E outcome \in OriginOutcomes, doc \in ClientDocs : ClientFetchOrigin("r1", outcome, doc)
  \/ \E throws \in BOOLEAN : ClientSegGet("r1", throws)
  \/ \E outcome \in ClientOutcomes, putThrows \in BOOLEAN :
       getSegmentsFromAPI("r1", outcome, putThrows)
  \/ ClientRewrite("r1")
  \/ Finish("r1")
  \/ Tick

SpecClient == InitClient /\ [][NextClient]_vars

\* C33 (as claimed): the classification client performs no cache read and no
\* cache write on any path: no step of the client changes a segment cache or
\* hands a put to waitUntil.
C33_Client_NoCacheWrite ==
  [][ \A r \in Reqs :
        (req[r].pc = "clientCall" /\ req'[r].pc # "clientCall")
        => segKV' = segKV /\ segCache' = segCache /\ pending' = pending ]_vars

(***************************************************************************)
(* The URL fixer script of injectSegmentsIntoPage: resolveUrl and          *)
(* fixElementUrls.  A reference is the sequence of its characters.         *)
(***************************************************************************)
\* String.prototype.startsWith
StartsWith(s, prefix) ==
  Len(s) >= Len(prefix) /\ SubSeq(s, 1, Len(prefix)) = prefix

\* String.prototype.lastIndexOf of one character, 0-based, -1 when absent
RECURSIVE LastIndexFrom(_, _, _)
LastIndexFrom(s, c, i) ==
  IF i = 0 THEN 0 - 1
  ELSE IF s[i] = c THEN i - 1
  ELSE LastIndexFrom(s, c, i - 1)

LastIndexOfChar(s, c) == LastIndexFrom(s, c, Len(s))

\* the page the script runs in: protocol, originBase and originalUrl.pathname
ResolveBase(protocol, baseUrl, basePath) ==
  [protocol |-> protocol, baseUrl |-> baseUrl, basePath |-> basePath]

ResolveBases ==
  {ResolveBase(<<"h", "t", "t", "p", "s", ":">>,
               <<"h", "t", "t", "p", "s", ":", "/", "/", "o">>, path) :
     path \in {<<"/">>, <<"/", "d", "/", "p">>, <<"/", "p">>}}
  \cup {ResolveBase(<<"h", "t", "t", "p", ":">>,
                    <<"h", "t", "t", "p", ":", "/", "/", "o">>, path) :
          path \in {<<"/">>, <<"/", "d", "/", "p">>, <<"/", "p">>}}

\* the references of the model
ResolveRefs ==
  { <<>>,
    <<"h", "t", "t", "p", ":", "/", "/", "a">>,
    <<"h", "t", "t", "p", "s", ":", "/", "/", "a">>,
    <<"/", "/", "a">>,
    <<"/", "a">>,
    <<"a">>,
    <<"a", "/", "b">>,
    <<".", ".", "/", "a">>,
    <<"#", "a">>,
    <<"j", "a", "v", "a", "s", "c", "r", "i", "p", "t", ":", "a">>,
    <<"d", "a", "t", "a", ":", "a">>,
    <<"m", "a", "i", "l", "t", "o", ":", "a">>,
    <<"t", "e", "l", ":", "a">>,
    <<"f", "t", "p", ":", "/", "/", "a">>,
    <<"h", "t", "t", "p", "a">>,
    <<"?", "a">> }

\* const baseDir = basePath.substring(0, basePath.lastIndexOf('/') + 1)
BaseDir(basePath) == SubSeq(basePath, 1, LastIndexOfChar(basePath, "/") + 1)

\* resolveUrl of the injected script
resolveUrl(url, base) ==
  IF url = <<>> THEN url
  ELSE IF StartsWith(url, <<"/", "/">>) THEN base.protocol \o url
  ELSE IF StartsWith(url, <<"h", "t", "t", "p", ":", "/", "/">>)
          \/ StartsWith(url, <<"h", "t", "t", "p", "s", ":", "/", "/">>) THEN url
  ELSE IF StartsWith(url, <<"/">>) THEN base.baseUrl \o url
  ELSE base.baseUrl \o BaseDir(base.basePath) \o url

\* fixElementUrls: the value an attribute has after the pass
fixElementUrls(value, base) ==
  IF /\ value # <<>>
     /\ ~StartsWith(value, <<"h", "t", "t", "p">>)
     /\ ~StartsWith(value, <<"#">>)
     /\ ~StartsWith(value, <<"j", "a", "v", "a", "s", "c", "r", "i", "p", "t", ":">>)
     /\ ~StartsWith(value, <<"d", "a", "t", "a", ":">>)
    THEN resolveUrl(value, base)
    ELSE value

InitResolve ==
  /\ keyIn \in [ref : ResolveRefs, base : ResolveBases]
  /\ keyOut = Null
  /\ worker = "part_006"
  /\ env = Env(TRUE, TRUE, TRUE)
  /\ now = 0
  /\ segCache = EmptyMap
  /\ pending = {}
  /\ htmlKV = EmptyMap
  /\ segKV = EmptyMap
  /\ req = [r \in Reqs |-> IdleReq]

ApplyResolve ==
  /\ keyOut = Null
  /\ keyOut' = [fixed |-> fixElementUrls(keyIn.ref, keyIn.base),
                resolved |-> resolveUrl(keyIn.ref, keyIn.base)]
  /\ UNCHANGED <<keyIn, mainVars>>

NextResolve == ApplyResolve

SpecResolve == InitResolve /\ [][NextResolve]_vars

\* the characters a scheme is made of in the references of the model
SchemeChars ==
  {"a", "c", "d", "e", "f", "h", "i", "j", "l", "m", "o", "p", "r", "s", "t", "v"}

\* the reference begins with a scheme: letters up to a colon
HasScheme(ref) ==
  \E i \in 2..Len(ref) :
    /\ ref[i] = ":"
    /\ \A j \in 1..(i - 1) : ref[j] \in SchemeChars

\* what the four rules of the resolver give, the first matching rule applied
ResolvedByRules(ref, base) ==
  IF ref = <<>> \/ HasScheme(ref) \/ StartsWith(ref, <<"#">>) THEN ref
  ELSE IF StartsWith(ref, <<"/", "/">>) THEN base.protocol \o ref
  ELSE IF StartsWith(ref, <<"/">>) THEN base.baseUrl \o ref
  ELSE base.baseUrl \o BaseDir(base.basePath) \o ref

\* C34 (as claimed): the resolver maps each reference by the first matching
\* rule: one with a scheme, or beginning with #, is left unchanged; one
\* beginning with // gets the base scheme; one beginning with / gets the base
\* origin; any other gets base origin + base directory.
C34_Resolver_FirstMatchingRule ==
  keyOut # Null => keyOut.fixed = ResolvedByRules(keyIn.ref, keyIn.base)

\* the reference has none of the schemes the script leaves aside, and does
\* not merely begin with the letters http
KnownSchemeOrNone(ref) ==
  /\ HasScheme(ref)
       => \/ StartsWith(ref, <<"h", "t", "t", "p">>)
          \/ StartsWith(ref, <<"j", "a", "v", "a", "s", "c", "r", "i", "p", "t", ":">>)
          \/ StartsWith(ref, <<"d", "a", "t", "a", ":">>)
  /\ ~HasScheme(ref) => ~StartsWith(ref, <<"h", "t", "t", "p">>)

\* C34 (what holds of it): the rules hold of every reference that neither
\* has a scheme other than http, https, javascript and data nor is a relative
\* reference beginning with the letters http.
C34_Resolver_KnownSchemes ==
  (keyOut # Null /\ KnownSchemeOrNone(keyIn.ref))
    => keyOut.fixed = ResolvedByRules(keyIn.ref, keyIn.base)

(***************************************************************************)
(* C35: what the caches hold under interleaved requests.                   *)
(***************************************************************************)
\* the stored document is the body and the validators of one answer of the
\* origin
WholeDocument(entry) ==
  \E doc \in PairDocs :
    /\ entry.html = doc.html
    /\ entry.validation = [etag |-> doc.etag, lastModified |-> doc.lastModified]

\* the stored document is what request r put: the body and the validators of
\* the answer it got through the cache module
PutBy(r, entry) ==
  /\ req[r].docVia = "cache-module"
  /\ req[r].response # Null
  /\ entry.html = req[r].response.body
  /\ entry.validation = [etag |-> req[r].response.etag,
                         lastModified |-> req[r].response.lastModified]

\* C35: under any interleaving of the requests, an entry of the document
\* cache is the complete value of one put (the body with the validators of
\* the same origin answer), and an entry of a segment cache is the complete
\* result of one classification call; no entry mixes two writes.
C35_Entry_IsOneWholePut ==
  /\ \A k \in DOMAIN htmlKV :
       /\ WholeDocument(htmlKV[k])
       /\ \E r \in Reqs : PutBy(r, htmlKV[k])
  /\ \A k \in DOMAIN segKV :
       \E r \in Reqs : /\ req[r].scheduled
                       /\ req[r].cacheKey = k
                       /\ segKV[k].segments = req[r].segments.segments
  /\ \A k \in DOMAIN segCache :
       \E r \in Reqs : /\ req[r].scheduled
                       /\ req[r].cacheKey = k
                       /\ segCache[k].structuredSegments = req[r].segments

\* both requests got a new document for the URL, each a different one, and
\* the store holds an entry for it
C35_Witness ==
  /\ worker = "part_006"
  /\ \A r \in Reqs : /\ req[r].pc = "done"
                     /\ req[r].docVia = "cache-module"
                     /\ req[r].origin = "200"
  /\ req["r1"].response.body # req["r2"].response.body
  /\ generateHtmlCacheKey(UrlNews) \in DOMAIN htmlKV

(***************************************************************************)
(* C36: a deferred write that is lost.                                     *)
(***************************************************************************)
\* the segment cache with the put p done
SegCacheWith(p) ==
  [k \in DOMAIN segCache \cup {p.key} |-> IF k = p.key THEN p.data ELSE segCache[k]]

\* C36: a deferred write of the segment cache that ends is either done as a
\* whole or lost as a whole; when it is lost the cache is what it was and no
\* request is touched; a request that looks up a key without an entry takes
\* the miss path, and a request served from the cache got the complete
\* result of a call.
C36_LostWrite_LeavesCacheAsItWas ==
  [][ /\ \A p \in pending \ pending' :
           /\ segCache' = segCache \/ segCache' = SegCacheWith(p)
           /\ req' = req
      /\ \A s \in Reqs :
           /\ (/\ req[s].pc = "segGet"
               /\ req'[s].pc # "segGet"
               /\ req[s].cacheKey \notin DOMAIN segCache)
              => req'[s].pc = "callApi" /\ req'[s].result = Null
           /\ (req[s].pc = "segGet" /\ req'[s].segSource = "cache")
              => \E r \in Reqs \ {s} :
                   /\ req[r].scheduled
                   /\ req[r].cacheKey = req[s].cacheKey
                   /\ req'[s].segments = req[r].segments ]_vars

\* the write r1 scheduled was lost (nothing is pending, nothing is stored
\* and no entry can have expired at time 0), and r2, with the same key, went
\* through the miss path
C36_Witness ==
  /\ worker = "part_007"
  /\ now = 0
  /\ req["r1"].scheduled
  /\ pending = {}
  /\ req["r2"].pc = "done"
  /\ req["r2"].cacheKey = req["r1"].cacheKey
  /\ req["r2"].apiCalls = 1
  /\ ~req["r2"].scheduled
  /\ req["r1"].cacheKey \notin DOMAIN segCache

(***************************************************************************)
(* C37: a revalidation answered with 304.                                  *)
(***************************************************************************)
\* C37 (as claimed): when the revalidation is answered with 304 and the
\* cached body is used, the request goes on to the segment lookup and the
\* rewrite with the document it got from the cache module: the client gets
\* the rewritten page, and the request takes neither the pass-through exit
\* nor the error page.
C37_NotModified_RewrittenFromCache ==
  \A r \in Reqs :
    (/\ worker \in ProxyWorkers
     /\ req[r].pc = "done"
     /\ req[r].origin = "304")
    => /\ req[r].result.kind = "html"
       /\ req[r].docVia = "cache-module"
       /\ req[r].direct = "none"

\* C37 (the exits alone): after a 304 the request does not end in the
\* pass-through exit or in the error page.
C37_NotModified_NoOtherExit ==
  \A r \in Reqs :
    (/\ worker \in ProxyWorkers
     /\ req[r].pc = "done"
     /\ req[r].origin = "304")
    => req[r].result.kind = "html"

(***************************************************************************)
(* C38: two requests with the same key miss the empty segment cache.       *)
(***************************************************************************)
\* both requests computed the same key and both took the miss path
BothMissed(r, s) ==
  /\ req[r].pc = "done" /\ req[r].segSource = "api"
  /\ req[s].pc = "done" /\ req[s].segSource = "api"
  /\ req[r].cacheKey = req[s].cacheKey

\* request r called the API itself and its page carries what its own call
\* returned
InjectsOwnResult(r) ==
  /\ req[r].apiCalls = 1
  /\ req[r].apiOutcome # Null
  /\ req[r].segments = callSegmentApi(req[r].apiOutcome)
  /\ req[r].result =
       Result("html", req[r].response.status,
              insertScope3Segments(req[r].response.body, Undefined,
                                   callSegmentApi(req[r].apiOutcome)))

\* the entry is the whole result of a call of r that was worth storing
CompleteResultOf(entry, r) ==
  /\ req[r].scheduled
  /\ entry.structuredSegments = req[r].segments
  /\ entry = SegmentsCacheData(req[r].segments, entry.timestamp)

\* C38: two requests with the same segment-cache key that both miss the
\* segment cache each issue a classification call of their own and each
\* inject the result of their own call; the segment cache then holds for the
\* key no entry, or the complete result of one of the two calls.
C38_ConcurrentMisses_OwnCalls_OneWholeEntry ==
  \A r \in Reqs : \A s \in Reqs \ {r} :
    (worker = "part_007" /\ BothMissed(r, s))
    => /\ InjectsOwnResult(r)
       /\ InjectsOwnResult(s)
       /\ req[r].cacheKey \in DOMAIN segCache
          => \/ CompleteResultOf(segCache[req[r].cacheKey], r)
             \/ CompleteResultOf(segCache[req[r].cacheKey], s)
       /\ \A p \in pending :
            p.key = req[r].cacheKey
            => CompleteResultOf(p.data, r) \/ CompleteResultOf(p.data, s)

\* both requests looked up the key before either write was done, their calls
\* returned different segments, both writes have ended and the cache holds
\* the result of the second request
C38_Witness ==
  /\ worker = "part_007"
  /\ now = 0
  /\ BothMissed("r1", "r2")
  /\ ~req["r1"].segThrew /\ ~req["r2"].segThrew
  /\ req["r1"].scheduled /\ req["r2"].scheduled
  /\ req["r1"].segments # req["r2"].segments
  /\ pending = {}
  /\ req["r1"].cacheKey \in DOMAIN segCache
  /\ IF req["r1"].cacheKey \in DOMAIN segCache
       THEN segCache[req["r1"].cacheKey].structuredSegments = req["r2"].segments
       ELSE FALSE

\* the cache stays empty: both calls failed
C38_Witness_NoEntry ==
  /\ worker = "part_007"
  /\ BothMissed("r1", "r2")
  /\ ~req["r1"].scheduled /\ ~req["r2"].scheduled
  /\ req["r1"].cacheKey \notin DOMAIN segCache

(***************************************************************************)
(* C39: the cache status fetchHtmlWithIntelligentCache reports.            *)
(***************************************************************************)
\* getHtmlWithCache returned a result to fetchHtmlWithIntelligentCache in
\* request r
HasFetchResult(r) ==
  /\ worker \in ProxyWorkers
  /\ req[r].fetchResult # Null
  /\ req[r].fetchResult # Thrown

\* what fetchHtmlWithIntelligentCache hands to handleProxyRequest in r
Reported(r) == fetchHtmlWithIntelligentCache(req[r].fetchResult)

\* the status that is reported for r is the string status
ReportedStatusIs(r, status) ==
  IF Reported(r) = Thrown THEN FALSE ELSE Reported(r).cacheStatus = status

\* C39 (as claimed): the cache status reported by
\* fetchHtmlWithIntelligentCache is MISS exactly when a fresh 200 body was
\* fetched, HIT-CONDITIONAL exactly when a 304 revalidation served the cached
\* body, HIT-FALLBACK exactly when a cached body was served after an origin
\* failure, and no other value is produced.
C39_CacheStatus_ExactlyWhen ==
  \A r \in Reqs :
    HasFetchResult(r)
    => /\ ReportedStatusIs(r, "MISS")
          <=> (req[r].origin = "200" /\ ~req[r].fetchResult.fromCache)
       /\ ReportedStatusIs(r, "HIT-CONDITIONAL")
          <=> (req[r].origin = "304" /\ req[r].fetchResult.notModified)
       /\ ReportedStatusIs(r, "HIT-FALLBACK")
          <=> (req[r].origin \notin {"200", "304"} /\ req[r].fetchResult.isFallback)
       /\ \/ ReportedStatusIs(r, "MISS")
          \/ ReportedStatusIs(r, "HIT-CONDITIONAL")
          \/ ReportedStatusIs(r, "HIT-FALLBACK")

\* C39 (what the code does): a status is reported only for a fresh body
\* (MISS) and for the fallback (HIT-FALLBACK); after a 304 the function
\* throws and reports nothing.
C39_CacheStatus_Reported ==
  \A r \in Reqs :
    HasFetchResult(r)
    => /\ ReportedStatusIs(r, "MISS")
          <=> (req[r].origin = "200" /\ ~req[r].fetchResult.fromCache)
       /\ ReportedStatusIs(r, "HIT-FALLBACK")
          <=> (req[r].origin \notin {"200", "304"} /\ req[r].fetchResult.isFallback)
       /\ (req[r].origin = "304" /\ req[r].fetchResult.notModified)
          <=> Reported(r) = Thrown
       /\ ~ReportedStatusIs(r, "HIT-CONDITIONAL")
       /\ ~ReportedStatusIs(r, "HIT")

\* a 304 revalidation took the cached body
C39_Witness_NotModified ==
  \E r \in Reqs :
    /\ HasFetchResult(r)
    /\ req[r].origin = "304"
    /\ IF HasFetchResult(r) THEN req[r].fetchResult.notModified ELSE FALSE

(***************************************************************************)
(* C40: the flags of a fetch result and the write of getHtmlWithCache.     *)
(***************************************************************************)
\* notModified implies fromCache; isFallback implies fromCache and not
\* notModified
FlagsConsistent(fetchResult) ==
  /\ fetchResult.notModified => fetchResult.fromCache
  /\ fetchResult.isFallback => (fetchResult.fromCache /\ ~fetchResult.notModified)

\* getHtmlWithCache of request r ends in this step with a result
GetHtmlWithCacheReturns(r) ==
  /\ worker \in ProxyWorkers
  /\ req[r].pc = "htmlFetch"
  /\ req'[r].pc # "htmlFetch"
  /\ req'[r].fetchResult # Null
  /\ req'[r].fetchResult # Thrown

\* what getHtmlWithCache does to the document cache for a result
WriteOf(r, fetchResult) ==
  IF fetchResult.fromCache
    THEN htmlKV' = htmlKV
    ELSE htmlKV' = cacheHtml(req[r].input.url, fetchResult.html, fetchResult.response,
                             env, htmlKV, now, req'[r].putThrew)

\* C40: every result fetchHtmlWithConditional returns has notModified only
\* with fromCache, and isFallback only with fromCache and without
\* notModified; getHtmlWithCache calls cacheHtml with the result's document
\* when fromCache is false, and leaves the document cache alone when it is
\* true.
C40_ResultFlags_WriteIffNotFromCache ==
  [][ \A r \in Reqs :
        GetHtmlWithCacheReturns(r)
        => /\ FlagsConsistent(req'[r].fetchResult)
           /\ WriteOf(r, req'[r].fetchResult) ]_vars

\* a fallback result (isFallback and fromCache) was returned and the entry
\* an earlier request stored is still in the document cache
C40_Witness ==
  \E r \in Reqs :
    /\ worker \in ProxyWorkers
    /\ env.HTML_CACHE
    /\ req[r].pc = "kvSegGet"
    /\ req[r].fetchResult # Null
    /\ req[r].fetchResult # Thrown
    /\ IF req[r].fetchResult # Null /\ req[r].fetchResult # Thrown
         THEN /\ req[r].fetchResult.isFallback
              /\ req[r].fetchResult.fromCache
              /\ generateHtmlCacheKey(req[r].input.url) \in DOMAIN htmlKV
         ELSE FALSE

\* a fresh result was returned and stored
C40_Witness_Fresh ==
  \E r \in Reqs :
    /\ worker \in ProxyWorkers
    /\ req[r].pc = "kvSegGet"
    /\ req[r].fetchResult # Null
    /\ req[r].fetchResult # Thrown
    /\ IF req[r].fetchResult # Null /\ req[r].fetchResult # Thrown
         THEN /\ ~req[r].fetchResult.fromCache
              /\ generateHtmlCacheKey(req[r].input.url) \in DOMAIN htmlKV
         ELSE FALSE

====
